---------------------------- MODULE Spec2Model ----------------------------
(***************************************************************************)
(* A model of parts of the Fornjot CAD kernel:                             *)
(*   - GlobalEdge / VerticesInNormalizedOrder  (fj-kernel objects/full)    *)
(*   - Vertices::add and Cycles::add of the early shape store              *)
(*   - the robust predicate orient3d            (fj-math robust.rs)        *)
(*   - the sweep of a half-edge into a face     (fj-kernel algorithms)     *)
(*   - the sweep and the approximation of a sketch                         *)
(*   - sweep_shape of the early kernel          (kernel/algorithms)        *)
(*   - the isosurface grid                      (fj geometry/isosurface)   *)
(*   - the event loop of the viewer             (fj-window run.rs)         *)
(***************************************************************************)
EXTENDS Integers, Sequences, FiniteSets, TLC

VARIABLES
    globalEdges,   \* every GlobalEdge::new call made so far, with its arguments
    halfEdges,     \* the half-edges built so far
    vertices,      \* VerticesInner: the stored vertices of the shape, in order
    lastAdd,       \* outcome of the latest Vertices::add call
    shapeEdges,    \* EdgesInner: the edges stored in the shape
    cycles,        \* CyclesInner: the stored cycles of the shape, in order
    lastCycle,     \* outcome of the latest Cycles::add call
    o3d,           \* the state of one orient3d call
    objects,       \* Objects: the stored objects of the kernel, in insertion order
    sw,            \* the state of one sweep of a half-edge
    sk,            \* the state of one sweep of a sketch
    ap,            \* the state of one approximation of a sketch
    ss,            \* the state of one sweep_shape call
    grid,          \* an isosurface grid and the latest query on it
    vw             \* the locals of the viewer's run and its latest iteration

shapeVars == <<globalEdges, halfEdges, vertices, lastAdd, shapeEdges, cycles, lastCycle>>
sweepVars == <<objects, sw, sk>>
legacyVars == <<ss, grid>>
uiVars == <<vw>>
restVars == <<ap, legacyVars, uiVars>>
extVars == <<sweepVars, restVars>>
kernelVars == <<shapeVars, extVars>>
vars == <<shapeVars, o3d, extVars>>

(***************************************************************************)
(* Bounds of the model.                                                    *)
(***************************************************************************)
MaxHandles  == 3    \* global-vertex handles are 1..MaxHandles, ordered by identity
MaxCurves   == 2    \* global-curve handles are 1..MaxCurves
MaxObjects  == 2    \* GlobalEdge::new calls / half-edges kept in one behaviour
MaxCoord    == 2    \* vertex points lie on the grid 0..MaxCoord in x and y
MaxVertices == 3    \* Vertices::add calls that store a vertex
MinDistance == 2    \* the shape's configured min_distance
MaxEdgeId   == 3    \* edge handles are 1..MaxEdgeId
MaxCycleLen == 2    \* edges per cycle passed to Cycles::add
MaxCycles   == 1    \* stored cycles

Handles == 1..MaxHandles
Curves  == 1..MaxCurves

(***************************************************************************)
(* objects/full/edge.rs                                                    *)
(***************************************************************************)

\* A seeded fault: the constructor keeps the argument order.
VerticesInNormalizedOrderNewKeepsOrder(pair) ==
    [vertices |-> pair, changed |-> FALSE]

\* A seeded fault: the comparison is the wrong way round.
VerticesInNormalizedOrderNewDescending(pair) ==
    IF pair[1] > pair[2]
    THEN [vertices |-> <<pair[1], pair[2]>>, changed |-> FALSE]
    ELSE [vertices |-> <<pair[2], pair[1]>>, changed |-> TRUE]

\* VerticesInNormalizedOrder::new([a, b]) -> (Self, bool)
VerticesInNormalizedOrderNew(pair) ==
    IF pair[1] < pair[2]
    THEN [vertices |-> <<pair[1], pair[2]>>, changed |-> FALSE]
    ELSE [vertices |-> <<pair[2], pair[1]>>, changed |-> TRUE]

\* GlobalEdge::new(curve, vertices): the bool of the normalization is dropped.
GlobalEdgeNew(curve, pair) ==
    [curve |-> curve, vertices |-> VerticesInNormalizedOrderNew(pair).vertices]

\* VerticesInNormalizedOrder::access_in_normalized_order
AccessInNormalizedOrder(ge) == ge.vertices

\* PartialHalfEdge::build: the global form is inferred from the curve's global
\* form and the global forms of the two boundary vertices (start, end).
HalfEdgeBuild(curve, start, end) ==
    [curve |-> curve, boundary |-> <<start, end>>,
     global_form |-> GlobalEdgeNew(curve, <<start, end>>)]

\* A call of GlobalEdge::new together with VerticesInNormalizedOrder::new's
\* own return value for the same argument.
NewGlobalEdge ==
    /\ Cardinality(globalEdges) < MaxObjects
    /\ \E c \in Curves, a \in Handles, b \in Handles :
          globalEdges' = globalEdges \cup
              {[curve |-> c, given |-> <<a, b>>,
                edge |-> GlobalEdgeNew(c, <<a, b>>),
                changed |-> VerticesInNormalizedOrderNew(<<a, b>>).changed]}
    /\ UNCHANGED <<halfEdges, vertices, lastAdd, shapeEdges, cycles, lastCycle, o3d, extVars>>

\* A half-edge is built between two global vertices on a curve; building it
\* is one more call of GlobalEdge::new.
BuildHalfEdge ==
    /\ Cardinality(globalEdges) < MaxObjects
    /\ \E c \in Curves, a \in Handles, b \in Handles :
          /\ halfEdges' = halfEdges \cup {HalfEdgeBuild(c, a, b)}
          /\ globalEdges' = globalEdges \cup
                {[curve |-> c, given |-> <<a, b>>,
                  edge |-> HalfEdgeBuild(c, a, b).global_form,
                  changed |-> VerticesInNormalizedOrderNew(<<a, b>>).changed]}
    /\ UNCHANGED <<vertices, lastAdd, shapeEdges, cycles, lastCycle, o3d, extVars>>

(***************************************************************************)
(* kernel/shape/vertices.rs                                                *)
(***************************************************************************)
Points == (0..MaxCoord) \X (0..MaxCoord)

\* (existing.point() - vertex.point()).magnitude() < min_distance, compared on
\* the squares: both sides are non-negative.
CloserThanMin(p, q) ==
    (p[1] - q[1]) * (p[1] - q[1]) + (p[2] - q[2]) * (p[2] - q[2])
        < MinDistance * MinDistance

\* A seeded fault: the comparison also rejects the exact minimum distance.
AddPanicsAtMinToo(vs, p) ==
    \E i \in 1..Len(vs) :
        (vs[i][1] - p[1]) * (vs[i][1] - p[1]) + (vs[i][2] - p[2]) * (vs[i][2] - p[2])
            <= MinDistance * MinDistance

\* The loop of Vertices::add: does some existing vertex make it panic?
AddPanics(vs, p) == \E i \in 1..Len(vs) : CloserThanMin(vs[i], p)

\* A seeded fault: only the most recently stored vertex is compared.
VerticesAfterAddLastOnly(vs, p) ==
    IF Len(vs) > 0 /\ CloserThanMin(vs[Len(vs)], p) THEN vs ELSE Append(vs, p)

\* The vertex list after Vertices::add(p): pushed only when no check panicked.
VerticesAfterAdd(vs, p) == IF AddPanics(vs, p) THEN vs ELSE Append(vs, p)

\* Vertices::add. The handle is the position of the new storage in the list.
VerticesAdd ==
    /\ Len(vertices) < MaxVertices
    /\ \E p \in Points :
          /\ vertices' = VerticesAfterAdd(vertices, p)
          /\ lastAdd' = [called |-> TRUE, point |-> p, before |-> vertices,
                         panicked |-> AddPanics(vertices, p),
                         handle |-> IF AddPanics(vertices, p) THEN 0
                                    ELSE Len(vertices) + 1]
    /\ UNCHANGED <<globalEdges, halfEdges, shapeEdges, cycles, lastCycle, o3d, extVars>>

(***************************************************************************)
(* kernel/shape/cycles.rs                                                  *)
(***************************************************************************)
EdgeIds == 1..MaxEdgeId

CycleCandidates ==
    UNION {[1..n -> EdgeIds] : n \in 1..MaxCycleLen}

\* A seeded fault: only the first edge of the cycle is validated.
CycleValidFirstOnly(es, cycle) == cycle[1] \in es

\* The assert! loop of Cycles::add passes for every edge of the cycle.
CycleValid(es, cycle) == \A i \in 1..Len(cycle) : cycle[i] \in es

\* Cycles::add
CyclesAdd ==
    /\ Len(cycles) < MaxCycles
    /\ \E c \in CycleCandidates :
          /\ cycles' = IF CycleValid(shapeEdges, c) THEN Append(cycles, c) ELSE cycles
          /\ lastCycle' = [called |-> TRUE, cycle |-> c, before |-> cycles,
                           panicked |-> ~CycleValid(shapeEdges, c),
                           handle |-> IF CycleValid(shapeEdges, c)
                                      THEN Len(cycles) + 1 ELSE 0]
    /\ UNCHANGED <<globalEdges, halfEdges, vertices, lastAdd, shapeEdges, o3d, extVars>>

(***************************************************************************)
(* fj-math/src/robust.rs: floating-point arithmetic                        *)
(*                                                                         *)
(* An f64 is a binary floating-point number with a 53-bit significand,     *)
(* rounded to nearest, ties to even.  The model keeps the arithmetic and   *)
(* scales the significand down to Prec bits.  All inputs are integers, so  *)
(* every value the predicate computes is an integer with at most Prec      *)
(* significant bits (the exponent range is not limited); the only          *)
(* fractions are the error bounds, kept as numerator over a power of two.  *)
(* The constants follow the formulas that produce the f64 literals of      *)
(* lines 25-29 (epsilon = 2^-53 there, 2^-Prec here):                      *)
(*   SPLITTER       = 2^ceil(p/2) + 1                                      *)
(*   RESULTERRBOUND = (3 + 8 eps) eps                                      *)
(*   O3DERRBOUNDA   = (7 + 56 eps) eps                                     *)
(*   O3DERRBOUNDB   = (3 + 28 eps) eps                                     *)
(*   O3DERRBOUNDC   = (26 + 288 eps) eps eps                               *)
(***************************************************************************)
Prec == 6    \* bits of the significand (53 in an f64)

RECURSIVE Pow2(_)
Pow2(n) == IF n = 0 THEN 1 ELSE 2 * Pow2(n - 1)

TwoToPrec == Pow2(Prec)

Abs(x) == IF x < 0 THEN -x ELSE x

Sign(x) == IF x > 0 THEN 1 ELSE IF x < 0 THEN -1 ELSE 0

\* The unit in the last place of a (non-negative) n: the least power of two
\* u with n < 2^Prec * u.
RECURSIVE Ulp(_, _)
Ulp(n, u) == IF n < TwoToPrec * u THEN u ELSE Ulp(n, 2 * u)

\* a / u for a >= 0, rounded to the nearest integer, ties to even.
RoundHalfEven(a, u) ==
    IF 2 * (a % u) > u \/ (2 * (a % u) = u /\ (a \div u) % 2 = 1)
    THEN (a \div u) + 1
    ELSE a \div u

\* n rounded to a multiple of u.
RoundToUlp(n, u) ==
    IF n < 0 THEN -(RoundHalfEven(-n, u) * u) ELSE RoundHalfEven(n, u) * u

\* Rounding of the exact result n of one f64 operation: to Prec significant
\* bits, to nearest, ties to even.
Fl(n) == RoundToUlp(n, Ulp(Abs(n), 1))

FAdd(a, b) == Fl(a + b)
FSub(a, b) == Fl(a - b)
FMul(a, b) == Fl(a * b)

\* const SPLITTER (134217729.0 = 2^27 + 1 for the 53-bit significand)
SPLITTER == Pow2((Prec + 1) \div 2) + 1

\* The error-bound constants as [num, exp]: the value is num / 2^exp.
RESULTERRBOUND == [num |-> 3 * Pow2(Prec - 3) + 1, exp |-> 2 * Prec - 3]
O3DERRBOUNDA   == [num |-> 7 * Pow2(Prec - 3) + 7, exp |-> 2 * Prec - 3]
O3DERRBOUNDB   == [num |-> 3 * Pow2(Prec - 2) + 7, exp |-> 2 * Prec - 2]
O3DERRBOUNDC   == [num |-> 26 * Pow2(Prec - 5) + 9, exp |-> 3 * Prec - 5]

\* bound * x for an error-bound constant and a float x >= 0, as [num, exp].
ErrMul(bound, x) == [num |-> Fl(bound.num * x), exp |-> bound.exp]

\* The sum of two [num, exp] values, y having the smaller exponent.
ErrAdd(x, y) ==
    [num |-> Fl(x.num + y.num * Pow2(x.exp - y.exp)), exp |-> x.exp]

\* det > errbound and det >= errbound for an integer det and errbound >= 0.
GreaterThan(det, err) == det > err.num \div Pow2(err.exp)
AtLeast(det, err) == det >= (err.num + Pow2(err.exp) - 1) \div Pow2(err.exp)

\* The macros of the original predicates.c, which robust.rs holds expanded
\* in line.  Each returns <<x, y>>: the rounded result and its roundoff.
\* Split: c = SPLITTER * a; abig = c - a; ahi = c - abig; alo = a - ahi
SplitLow(a, ahi) == <<ahi, FSub(a, ahi)>>

Split(a) ==
    SplitLow(a, FSub(FMul(SPLITTER, a), FSub(FMul(SPLITTER, a), a)))

\* Two_Product_Presplit, with <<ahi, alo>> and <<bhi, blo>> given:
\* err1 = x - ahi * bhi; err2 = err1 - alo * bhi; err3 = err2 - ahi * blo;
\* y = alo * blo - err3
TwoProductPresplit(x, sa, sb) ==
    <<x, FSub(FMul(sa[2], sb[2]),
              FSub(FSub(FSub(x, FMul(sa[1], sb[1])), FMul(sa[2], sb[1])),
                   FMul(sa[1], sb[2])))>>

\* Two_Product: x = a * b, both factors split.
TwoProduct(a, b) == TwoProductPresplit(FMul(a, b), Split(a), Split(b))

\* Two_Sum_Tail: bvirt = x - a; avirt = x - bvirt; bround = b - bvirt;
\* around = a - avirt; y = around + bround
TwoSumTail(a, b, x) ==
    <<x, FAdd(FSub(a, FSub(x, FSub(x, a))), FSub(b, FSub(x, a)))>>

\* Two_Sum: x = a + b
TwoSum(a, b) == TwoSumTail(a, b, FAdd(a, b))

\* Two_Diff_Tail: bvirt = a - x; avirt = x + bvirt; bround = bvirt - b;
\* around = a - avirt; y = around + bround
TwoDiffTail(a, b, x) ==
    <<x, FAdd(FSub(a, FAdd(x, FSub(a, x))), FSub(FSub(a, x), b))>>

\* Two_Diff: x = a - b
TwoDiff(a, b) == TwoDiffTail(a, b, FSub(a, b))

\* Fast_Two_Sum_Tail: bvirt = x - a; y = b - bvirt
FastTwoSumTail(a, b, x) == <<x, FSub(b, FSub(x, a))>>

\* Fast_Two_Sum: x = a + b
FastTwoSum(a, b) == FastTwoSumTail(a, b, FAdd(a, b))

\* <<x, y>> of a macro stored as the array components [y, x].
AsArray(xy) == <<xy[2], xy[1]>>

\* Two_One_Diff: (a1 + a0) - b as <<x0, x1, x2>>, d being Two_Diff(a0, b).
TwoOneDiffSum(a1, d) == <<d[2]>> \o AsArray(TwoSum(a1, d[1]))

TwoOneDiff(a1, a0, b) == TwoOneDiffSum(a1, TwoDiff(a0, b))

\* Two_Two_Diff: the expansion x0 + x1 + x2 + x3 of (a1 + a0) - (b1 + b0),
\* returned as the array <<x0, x1, x2, x3>>; t is Two_One_Diff(a1, a0, b0).
TwoTwoDiffUpper(b1, t) == <<t[1]>> \o TwoOneDiff(t[3], t[2], b1)

TwoTwoDiff(a1, a0, b1, b0) == TwoTwoDiffUpper(b1, TwoOneDiff(a1, a0, b0))

\* The difference of two Two_Products as a 4-component array.
ProductPairDiff(ab, cd) == TwoTwoDiff(ab[1], ab[2], cd[1], cd[2])

\* a * b - c * d
ProductDiff(a, b, c, d) == ProductPairDiff(TwoProduct(a, b), TwoProduct(c, d))

\* Two_One_Product: the expansion of (a1 + a0) * b as <<x0, x1, x2, x3>>;
\* p0 and p1 are the Two_Products of a0 and a1 with b, k is
\* Two_Sum(p0.x, p1.y), and Fast_Two_Sum(p1.x, k.x) gives x3 and x2.
TwoOneProductTop(j, k) == <<k[2]>> \o AsArray(FastTwoSum(j, k[1]))

TwoOneProductSum(p0, p1) ==
    <<p0[2]>> \o TwoOneProductTop(p1[1], TwoSum(p0[1], p1[2]))

TwoOneProduct(a1, a0, b) == TwoOneProductSum(TwoProduct(a0, b), TwoProduct(a1, b))

(***************************************************************************)
(* fj-math/src/robust.rs: the arrays of orient3dadapt                      *)
(*                                                                         *)
(* An array [0.; n] is kept as the sequence of its elements up to the last *)
(* one written; the elements behind it are still the zeros it started with.*)
(***************************************************************************)
ArrayNames ==
    {"bc", "ca", "ab", "adet", "bdet", "cdet", "abdet", "fin1", "fin2",
     "at_b", "at_c", "bt_c", "bt_a", "ct_a", "ct_b", "bct", "cat", "abt",
     "u", "v", "w"}

\* The declared length of each array (lines 77-85, 93-98, 128-130, 143-145).
Capacity(name) ==
    CASE name \in {"bc", "ca", "ab", "u"} -> 4
      [] name \in {"at_b", "at_c", "bt_c", "bt_a", "ct_a", "ct_b"} -> 4
      [] name \in {"adet", "bdet", "cdet", "bct", "cat", "abt"} -> 8
      [] name = "v" -> 12
      [] name \in {"abdet", "w"} -> 16
      [] OTHER -> 192

\* a[i] for a 0-based index i inside the array.
ReadAt(a, i) == IF i < Len(a) THEN a[i + 1] ELSE 0

\* The array after a[i] = x.
WriteAt(a, i, x) ==
    [k \in 1..(IF i + 1 > Len(a) THEN i + 1 ELSE Len(a)) |->
        IF k = i + 1 THEN x ELSE IF k <= Len(a) THEN a[k] ELSE 0]

\* h[hindex] = hh; hindex += 1, done only when `cond` holds.  A write
\* outside the array panics.
PushIf(fr, cond, hh) ==
    IF ~cond THEN fr
    ELSE IF fr.hindex >= fr.hcap THEN [fr EXCEPT !.oob = TRUE]
    ELSE [fr EXCEPT !.h = WriteAt(fr.h, fr.hindex, hh), !.hindex = fr.hindex + 1]

\* eindex += 1; enow = e[eindex]: the read panics when eindex has reached the
\* length of the slice.
AdvanceE(fr) ==
    IF fr.eindex + 1 >= fr.ecap
    THEN [fr EXCEPT !.eindex = fr.eindex + 1, !.oob = TRUE]
    ELSE [fr EXCEPT !.eindex = fr.eindex + 1, !.enow = ReadAt(fr.e, fr.eindex + 1)]

\* findex += 1; fnow = f[findex]
AdvanceF(fr) ==
    IF fr.findex + 1 >= fr.fcap
    THEN [fr EXCEPT !.findex = fr.findex + 1, !.oob = TRUE]
    ELSE [fr EXCEPT !.findex = fr.findex + 1, !.fnow = ReadAt(fr.f, fr.findex + 1)]

\* (fnow > enow) as i32 == (fnow > -enow) as i32
TakeE(fr) == (fr.fnow > fr.enow) = (fr.fnow > -fr.enow)

NoFrame == [fn |-> "none"]

(***************************************************************************)
(* scale_expansion_zeroelim(elen, e, b, h), lines 1547-1630                *)
(***************************************************************************)
\* Lines 1571-1591: the first component and eindex = 1.
ScaleBegin(e, elen, ecap, b, hold, hcap) ==
    LET p == TwoProduct(ReadAt(e, 0), b)
        fr == [fn |-> "scale", e |-> e, elen |-> elen, ecap |-> ecap,
               f |-> <<>>, flen |-> 0, fcap |-> 0, b |-> b,
               h |-> hold, hcap |-> hcap, hindex |-> 0,
               eindex |-> 1, findex |-> 0, q |-> p[1],
               enow |-> 0, fnow |-> 0, oob |-> FALSE]
    IN  PushIf(fr, p[2] # 0, p[2])

\* One iteration of the while loop, lines 1592-1623.
ScaleIteration(fr) ==
    LET enow == ReadAt(fr.e, fr.eindex)
        p == TwoProduct(enow, fr.b)
        s == TwoSum(fr.q, p[2])
        t == FastTwoSum(p[1], s[1])
        f1 == PushIf([fr EXCEPT !.enow = enow], s[2] # 0, s[2])
        f2 == IF f1.oob THEN f1 ELSE PushIf(f1, t[2] # 0, t[2])
    IN  IF fr.eindex >= fr.ecap THEN [fr EXCEPT !.oob = TRUE]
        ELSE [f2 EXCEPT !.q = t[1], !.eindex = fr.eindex + 1]

\* Lines 1624-1629 and 1745-1750: the last component; hindex is returned.
ExpansionEnd(fr) == PushIf(fr, fr.q # 0 \/ fr.hindex = 0, fr.q)

(***************************************************************************)
(* fast_expansion_sum_zeroelim(elen, e, flen, f, h), lines 1632-1751       *)
(***************************************************************************)
\* Lines 1650-1664: the smaller of e[0] and f[0] becomes q.
SumBegin(e, elen, ecap, f, flen, fcap, hold, hcap) ==
    LET fr == [fn |-> "sum", e |-> e, elen |-> elen, ecap |-> ecap,
               f |-> f, flen |-> flen, fcap |-> fcap, b |-> 0,
               h |-> hold, hcap |-> hcap, hindex |-> 0,
               eindex |-> 0, findex |-> 0, q |-> 0,
               enow |-> ReadAt(e, 0), fnow |-> ReadAt(f, 0), oob |-> FALSE]
    IN  IF TakeE(fr) THEN AdvanceE([fr EXCEPT !.q = fr.enow])
        ELSE AdvanceF([fr EXCEPT !.q = fr.fnow])

\* Lines 1666-1684: the first addition, a Fast_Two_Sum.
SumFirstAdd(fr) ==
    LET takeE == TakeE(fr)
        t == IF takeE THEN FastTwoSum(fr.enow, fr.q) ELSE FastTwoSum(fr.fnow, fr.q)
        f1 == IF takeE THEN AdvanceE(fr) ELSE AdvanceF(fr)
    IN  IF f1.oob THEN f1 ELSE PushIf([f1 EXCEPT !.q = t[1]], t[2] # 0, t[2])

\* Lines 1685-1711: one iteration of the loop that merges e and f.
SumMergeIteration(fr) ==
    LET takeE == TakeE(fr)
        t == IF takeE THEN TwoSum(fr.q, fr.enow) ELSE TwoSum(fr.q, fr.fnow)
        f1 == IF takeE THEN AdvanceE(fr) ELSE AdvanceF(fr)
    IN  IF f1.oob THEN f1 ELSE PushIf([f1 EXCEPT !.q = t[1]], t[2] # 0, t[2])

\* Lines 1713-1728: one iteration of the loop over the rest of e.
SumRestEIteration(fr) ==
    LET t == TwoSum(fr.q, fr.enow)
        f1 == AdvanceE(fr)
    IN  IF f1.oob THEN f1 ELSE PushIf([f1 EXCEPT !.q = t[1]], t[2] # 0, t[2])

\* Lines 1729-1744: one iteration of the loop over the rest of f.
SumRestFIteration(fr) ==
    LET t == TwoSum(fr.q, fr.fnow)
        f1 == AdvanceF(fr)
    IN  IF f1.oob THEN f1 ELSE PushIf([f1 EXCEPT !.q = t[1]], t[2] # 0, t[2])

\* Where control is inside the running function, from its loop conditions.
FramePhase(fr, first) ==
    IF fr.oob THEN "panic"
    ELSE IF fr.fn = "scale"
         THEN (IF fr.eindex < fr.elen THEN "scale_loop" ELSE "end")
    ELSE IF fr.eindex < fr.elen /\ fr.findex < fr.flen
         THEN (IF first THEN "sum_first" ELSE "sum_merge")
    ELSE IF fr.eindex < fr.elen THEN "sum_rest_e"
    ELSE IF fr.findex < fr.flen THEN "sum_rest_f"
    ELSE "end"

\* estimate(e), lines 1753-1761
RECURSIVE EstimateFrom(_, _, _)
EstimateFrom(e, i, q) ==
    IF i > Len(e) THEN q ELSE EstimateFrom(e, i + 1, FAdd(q, e[i]))

Estimate(e) == EstimateFrom(e, 2, e[1])

(***************************************************************************)
(* fj-math/src/robust.rs: orient3d and orient3dadapt                       *)
(*                                                                         *)
(* o3d is the state of one call: the four points p = <<pa, pb, pc, pd>>,   *)
(* the locals that live across calls, the calls of the current stage that  *)
(* are still to be made (todo), and the frame fr of the running            *)
(* scale_expansion_zeroelim or fast_expansion_sum_zeroelim.                *)
(***************************************************************************)
\* The nine coordinate differences adx .. cdz (lines 33-41 and 167-175).
Diffs(p) ==
    [adx |-> FSub(p[1][1], p[4][1]), bdx |-> FSub(p[2][1], p[4][1]),
     cdx |-> FSub(p[3][1], p[4][1]), ady |-> FSub(p[1][2], p[4][2]),
     bdy |-> FSub(p[2][2], p[4][2]), cdy |-> FSub(p[3][2], p[4][2]),
     adz |-> FSub(p[1][3], p[4][3]), bdz |-> FSub(p[2][3], p[4][3]),
     cdz |-> FSub(p[3][3], p[4][3])]

\* Their roundoff adxtail .. cdztail (Two_Diff_Tail, lines 341-385).
Tails(p) ==
    [adx |-> TwoDiff(p[1][1], p[4][1])[2], bdx |-> TwoDiff(p[2][1], p[4][1])[2],
     cdx |-> TwoDiff(p[3][1], p[4][1])[2], ady |-> TwoDiff(p[1][2], p[4][2])[2],
     bdy |-> TwoDiff(p[2][2], p[4][2])[2], cdy |-> TwoDiff(p[3][2], p[4][2])[2],
     adz |-> TwoDiff(p[1][3], p[4][3])[2], bdz |-> TwoDiff(p[2][3], p[4][3])[2],
     cdz |-> TwoDiff(p[3][3], p[4][3])[2]]

\* The state at the entry of orient3d(pa, pb, pc, pd).
Orient3dEntry(p) ==
    [pc |-> "start", p |-> p, permanent |-> 0, det |-> 0, result |-> 0,
     via |-> "none", stage |-> 0, todo |-> <<>>,
     arr |-> [n \in ArrayNames |-> <<>>],
     len |-> [n \in ArrayNames |-> IF n \in {"bc", "ca", "ab", "u"} THEN 4 ELSE 0],
     finnow |-> "fin1", fr |-> NoFrame]

Returned(m, det, via) ==
    [m EXCEPT !.pc = "done", !.result = det, !.det = det, !.via = via]

\* orient3d, lines 32-65: the estimate and its error bound.
Orient3d(m) ==
    LET d == Diffs(m.p)
        bdxcdy == FMul(d.bdx, d.cdy)
        cdxbdy == FMul(d.cdx, d.bdy)
        cdxady == FMul(d.cdx, d.ady)
        adxcdy == FMul(d.adx, d.cdy)
        adxbdy == FMul(d.adx, d.bdy)
        bdxady == FMul(d.bdx, d.ady)
        det == FAdd(FAdd(FMul(d.adz, FSub(bdxcdy, cdxbdy)),
                         FMul(d.bdz, FSub(cdxady, adxcdy))),
                    FMul(d.cdz, FSub(adxbdy, bdxady)))
        permanent ==
            FAdd(FAdd(FMul(FAdd(Abs(bdxcdy), Abs(cdxbdy)), Abs(d.adz)),
                      FMul(FAdd(Abs(cdxady), Abs(adxcdy)), Abs(d.bdz))),
                 FMul(FAdd(Abs(adxbdy), Abs(bdxady)), Abs(d.cdz)))
        errbound == ErrMul(O3DERRBOUNDA, permanent)
    IN  IF GreaterThan(det, errbound) \/ GreaterThan(-det, errbound)
        THEN Returned(m, det, "fast")
        ELSE [m EXCEPT !.pc = "adapt", !.permanent = permanent, !.det = det]

ScaleCall(e, b, h) == [fn |-> "scale", e |-> e, f |-> "none", b |-> b, h |-> h, u |-> <<>>]
SumCall(e, f, h) == [fn |-> "sum", e |-> e, f |-> f, b |-> 0, h |-> h, u |-> <<>>]
\* u is filled, then fast_expansion_sum_zeroelim(finlength, finnow, 4, &u, finother)
SumUCall(u) == [fn |-> "sum", e |-> "finnow", f |-> "u", b |-> 0, h |-> "finother", u |-> u]

\* orient3dadapt, lines 176-335: bc, ca, ab and the calls that build fin1.
AdaptFirstStage(m) ==
    LET d == Diffs(m.p)
    IN  [m EXCEPT
            !.pc = "call", !.stage = 1,
            !.arr = [m.arr EXCEPT
                        !["bc"] = ProductDiff(d.bdx, d.cdy, d.cdx, d.bdy),
                        !["ca"] = ProductDiff(d.cdx, d.ady, d.adx, d.cdy),
                        !["ab"] = ProductDiff(d.adx, d.bdy, d.bdx, d.ady)],
            !.todo = <<ScaleCall("bc", d.adz, "adet"),
                       ScaleCall("ca", d.bdz, "bdet"),
                       ScaleCall("ab", d.cdz, "cdet"),
                       SumCall("adet", "bdet", "abdet"),
                       SumCall("abdet", "cdet", "fin1")>>]

\* Lines 416-946 for one point with tails xt, yt: the arrays of
\* xt * ny - yt * nx and of yt * mx - xt * my (at_b and at_c for point a).
TailProducts(xt, yt, nx, ny, mx, my) ==
    IF xt = 0
    THEN IF yt = 0
         THEN [first |-> <<0>>, second |-> <<0>>]
         ELSE [first |-> AsArray(TwoProduct(-yt, nx)),
               second |-> AsArray(TwoProduct(yt, mx))]
    ELSE IF yt = 0
         THEN [first |-> AsArray(TwoProduct(xt, ny)),
               second |-> AsArray(TwoProduct(-xt, my))]
         ELSE [first |-> ProductDiff(xt, ny, yt, nx),
               second |-> ProductDiff(yt, mx, xt, my)]

\* Lines 986-1522 for one pair of tails: u = (xt * yt) * z is added to fin,
\* and (xt * yt) * ztail when ztail is not zero.  xt is passed negated where
\* the code multiplies by `negate`.
TailTailCalls(xt, yt, z, ztail) ==
    IF xt = 0 \/ yt = 0 THEN <<>>
    ELSE LET t == TwoProduct(xt, yt)
         IN  <<SumUCall(TwoOneProduct(t[1], t[2], z))>>
             \o (IF ztail # 0 THEN <<SumUCall(TwoOneProduct(t[1], t[2], ztail))>>
                 ELSE <<>>)

\* scale_expansion_zeroelim(.., e, b, h) followed by
\* fast_expansion_sum_zeroelim(finlength, finnow, hlen, h, finother), made
\* only when b is not zero.
ScaledIntoFin(e, b, h) ==
    IF b = 0 THEN <<>>
    ELSE <<ScaleCall(e, b, h), SumCall("finnow", h, "finother")>>

\* The calls of lines 947-1543, in order.
FinalCalls(d, t) ==
    <<SumCall("bt_c", "ct_b", "bct"), ScaleCall("bct", d.adz, "w"),
      SumCall("finnow", "w", "finother"),
      SumCall("ct_a", "at_c", "cat"), ScaleCall("cat", d.bdz, "w"),
      SumCall("finnow", "w", "finother"),
      SumCall("at_b", "bt_a", "abt"), ScaleCall("abt", d.cdz, "w"),
      SumCall("finnow", "w", "finother")>>
    \o ScaledIntoFin("bc", t.adz, "v")
    \o ScaledIntoFin("ca", t.bdz, "v")
    \o ScaledIntoFin("ab", t.cdz, "v")
    \o TailTailCalls(t.adx, t.bdy, d.cdz, t.cdz)
    \o (IF t.adx # 0 THEN TailTailCalls(-t.adx, t.cdy, d.bdz, t.bdz) ELSE <<>>)
    \o TailTailCalls(t.bdx, t.cdy, d.adz, t.adz)
    \o (IF t.bdx # 0 THEN TailTailCalls(-t.bdx, t.ady, d.cdz, t.cdz) ELSE <<>>)
    \o TailTailCalls(t.cdx, t.ady, d.bdz, t.bdz)
    \o (IF t.cdx # 0 THEN TailTailCalls(-t.cdx, t.bdy, d.adz, t.adz) ELSE <<>>)
    \o ScaledIntoFin("bct", t.adz, "w")
    \o ScaledIntoFin("cat", t.bdz, "w")
    \o ScaledIntoFin("abt", t.cdz, "w")

\* The correction of the estimate by the tails, lines 400-410.
TailCorrection(d, t) ==
    FAdd(FAdd(FAdd(
        FMul(d.adz, FSub(FAdd(FMul(d.bdx, t.cdy), FMul(d.cdy, t.bdx)),
                         FAdd(FMul(d.bdy, t.cdx), FMul(d.cdx, t.bdy)))),
        FMul(t.adz, FSub(FMul(d.bdx, d.cdy), FMul(d.bdy, d.cdx)))),
        FAdd(FMul(d.bdz, FSub(FAdd(FMul(d.cdx, t.ady), FMul(d.ady, t.cdx)),
                              FAdd(FMul(d.cdy, t.adx), FMul(d.adx, t.cdy)))),
             FMul(t.bdz, FSub(FMul(d.cdx, d.ady), FMul(d.cdy, d.adx))))),
        FAdd(FMul(d.cdz, FSub(FAdd(FMul(d.adx, t.bdy), FMul(d.bdy, t.adx)),
                              FAdd(FMul(d.ady, t.bdx), FMul(d.bdx, t.ady)))),
             FMul(t.cdz, FSub(FMul(d.adx, d.bdy), FMul(d.ady, d.bdx)))))

\* orient3dadapt, lines 336-946: the three early returns, and otherwise the
\* tail arrays and the calls of the last stage.
AdaptMiddleStage(m) ==
    LET d == Diffs(m.p)
        t == Tails(m.p)
        det == Estimate(SubSeq(m.arr["fin1"], 1, m.len["fin1"]))
        errB == ErrMul(O3DERRBOUNDB, m.permanent)
        errC == ErrAdd(ErrMul(O3DERRBOUNDC, m.permanent),
                       ErrMul(RESULTERRBOUND, Abs(det)))
        det2 == FAdd(det, TailCorrection(d, t))
        a == TailProducts(t.adx, t.ady, d.bdx, d.bdy, d.cdx, d.cdy)
        b == TailProducts(t.bdx, t.bdy, d.cdx, d.cdy, d.adx, d.ady)
        c == TailProducts(t.cdx, t.cdy, d.adx, d.ady, d.bdx, d.bdy)
    IN  IF AtLeast(det, errB) \/ AtLeast(-det, errB)
        THEN Returned(m, det, "B")
        ELSE IF \A k \in DOMAIN t : t[k] = 0
        THEN Returned(m, det, "exact")
        ELSE IF AtLeast(det2, errC) \/ AtLeast(-det2, errC)
        THEN Returned(m, det2, "C")
        ELSE [m EXCEPT
                !.pc = "call", !.stage = 2, !.det = det2,
                !.arr = [m.arr EXCEPT
                            !["at_b"] = a.first, !["at_c"] = a.second,
                            !["bt_c"] = b.first, !["bt_a"] = b.second,
                            !["ct_a"] = c.first, !["ct_b"] = c.second],
                !.len = [m.len EXCEPT
                            !["at_b"] = Len(a.first), !["at_c"] = Len(a.second),
                            !["bt_c"] = Len(b.first), !["bt_a"] = Len(b.second),
                            !["ct_a"] = Len(c.first), !["ct_b"] = Len(c.second)],
                !.todo = FinalCalls(d, t)]

\* Line 1544: finnow[(finlength - 1) as usize]
AdaptReturn(m) ==
    Returned(m, ReadAt(m.arr[m.finnow], m.len[m.finnow] - 1), "final")

OtherFin(name) == IF name = "fin1" THEN "fin2" ELSE "fin1"

\* finnow and finother are references to fin1 and fin2.
ArrayOf(m, name) ==
    IF name = "finnow" THEN m.finnow
    ELSE IF name = "finother" THEN OtherFin(m.finnow)
    ELSE name

\* The next call of the stage is entered: its code up to the first loop.
EnterCall(m) ==
    LET call == Head(m.todo)
        arr == IF call.u = <<>> THEN m.arr ELSE [m.arr EXCEPT !["u"] = call.u]
        e == ArrayOf(m, call.e)
        f == ArrayOf(m, call.f)
        h == ArrayOf(m, call.h)
        fr == IF call.fn = "scale"
              THEN ScaleBegin(arr[e], m.len[e], Capacity(e), call.b, arr[h], Capacity(h))
              ELSE SumBegin(arr[e], m.len[e], Capacity(e),
                            arr[f], m.len[f], Capacity(f), arr[h], Capacity(h))
    IN  [m EXCEPT !.arr = arr, !.fr = fr, !.pc = FramePhase(fr, TRUE)]

\* One loop iteration of the running function.
LoopIteration(m) ==
    LET fr == CASE m.pc = "scale_loop" -> ScaleIteration(m.fr)
                [] m.pc = "sum_first" -> SumFirstAdd(m.fr)
                [] m.pc = "sum_merge" -> SumMergeIteration(m.fr)
                [] m.pc = "sum_rest_e" -> SumRestEIteration(m.fr)
                [] m.pc = "sum_rest_f" -> SumRestFIteration(m.fr)
    IN  [m EXCEPT !.fr = fr, !.pc = FramePhase(fr, FALSE)]

\* The running function returns hindex: the caller stores the length and,
\* for a sum into finother, swaps finnow and finother.
LeaveCall(m) ==
    LET call == Head(m.todo)
        fr == ExpansionEnd(m.fr)
        h == ArrayOf(m, call.h)
    IN  IF fr.oob THEN [m EXCEPT !.fr = fr, !.pc = "panic"]
        ELSE [m EXCEPT
                !.arr = [m.arr EXCEPT ![h] = fr.h],
                !.len = [m.len EXCEPT ![h] = fr.hindex],
                !.finnow = IF call.h = "finother" THEN h ELSE m.finnow,
                !.todo = Tail(m.todo), !.fr = NoFrame, !.pc = "call"]

LoopPhases == {"scale_loop", "sum_first", "sum_merge", "sum_rest_e", "sum_rest_f"}

\* The whole of one call, and of the calls left in the stage.
RECURSIVE RunFrame(_)
RunFrame(m) ==
    IF m.pc \in LoopPhases THEN RunFrame(LoopIteration(m))
    ELSE IF m.pc = "end" THEN LeaveCall(m)
    ELSE m

RECURSIVE RunCalls(_)
RunCalls(m) ==
    IF m.pc = "call" /\ m.todo # <<>> THEN RunCalls(RunFrame(EnterCall(m))) ELSE m

\* orient3d(pa, pb, pc, pd) from entry to return or panic.
Orient3dRun(p) ==
    LET m1 == Orient3d(Orient3dEntry(p))
        m2 == RunCalls(AdaptFirstStage(m1))
        m3 == AdaptMiddleStage(m2)
        m4 == RunCalls(m3)
    IN  IF m1.pc # "adapt" THEN m1
        ELSE IF m2.pc = "panic" THEN m2
        ELSE IF m3.pc # "call" THEN m3
        ELSE IF m4.pc = "panic" THEN m4
        ELSE AdaptReturn(m4)

\* The points orient3d is called with: integer coordinates that are floats
\* of Prec bits, some of whose differences are not.
PointPool ==
    {<<44, 0, 47>>, <<126, 114, 48>>, <<17, 13, 57>>, <<21, 26, 15>>,
     <<80, 27, 61>>}

Orient3dInputs == PointPool \X PointPool \X PointPool \X PointPool

\* orient3d up to its return or its call of orient3dadapt.
Orient3dFast ==
    /\ o3d.pc = "start"
    /\ o3d' = Orient3d(o3d)
    /\ UNCHANGED kernelVars

AdaptStart ==
    /\ o3d.pc = "adapt"
    /\ o3d' = AdaptFirstStage(o3d)
    /\ UNCHANGED kernelVars

CallExpansion ==
    /\ o3d.pc = "call"
    /\ o3d.todo # <<>>
    /\ o3d' = EnterCall(o3d)
    /\ UNCHANGED kernelVars

ScaleLoop ==
    /\ o3d.pc = "scale_loop"
    /\ o3d' = LoopIteration(o3d)
    /\ UNCHANGED kernelVars

SumFirst ==
    /\ o3d.pc = "sum_first"
    /\ o3d' = LoopIteration(o3d)
    /\ UNCHANGED kernelVars

SumMerge ==
    /\ o3d.pc = "sum_merge"
    /\ o3d' = LoopIteration(o3d)
    /\ UNCHANGED kernelVars

SumRestE ==
    /\ o3d.pc = "sum_rest_e"
    /\ o3d' = LoopIteration(o3d)
    /\ UNCHANGED kernelVars

SumRestF ==
    /\ o3d.pc = "sum_rest_f"
    /\ o3d' = LoopIteration(o3d)
    /\ UNCHANGED kernelVars

ExpansionReturn ==
    /\ o3d.pc = "end"
    /\ o3d' = LeaveCall(o3d)
    /\ UNCHANGED kernelVars

AdaptMiddle ==
    /\ o3d.pc = "call"
    /\ o3d.todo = <<>>
    /\ o3d.stage = 1
    /\ o3d' = AdaptMiddleStage(o3d)
    /\ UNCHANGED kernelVars

AdaptFinal ==
    /\ o3d.pc = "call"
    /\ o3d.todo = <<>>
    /\ o3d.stage = 2
    /\ o3d' = AdaptReturn(o3d)
    /\ UNCHANGED kernelVars

(***************************************************************************)
(* The object store.  A handle is the position of the stored instance in   *)
(* objects, so two handles are the same handle exactly when they name the  *)
(* same stored instance, and handles are ordered by that position.         *)
(***************************************************************************)
MaxSweeps == 2      \* sweeps of a half-edge made in one store
MaxFaces == 2       \* faces of a sketch

\* A seeded fault: every insertion allocates a new instance.
InsertAlwaysAllocates(store, value) ==
    [objects |-> Append(store, value), handle |-> Len(store) + 1]

\* Insert::insert(self, objects) -> Handle<Self>
Insert(store, value) ==
    IF \E h \in 1..Len(store) : store[h] = value
    THEN [objects |-> store,
          handle |-> CHOOSE h \in 1..Len(store) : store[h] = value]
    ELSE [objects |-> Append(store, value), handle |-> Len(store) + 1]

Plus3(a, b) == <<a[1] + b[1], a[2] + b[2], a[3] + b[3]>>

\* objects.surfaces.xy_plane() and xz_plane(), stored from the start
XyPlane == [kind |-> "Surface", origin |-> <<0, 0, 0>>,
            u |-> <<1, 0, 0>>, v |-> <<0, 1, 0>>]
XzPlane == [kind |-> "Surface", origin |-> <<0, 0, 0>>,
            u |-> <<1, 0, 0>>, v |-> <<0, 0, 1>>]

\* the handle of a surface that is stored
SurfaceHandle(store, surface) == CHOOSE h \in 1..Len(store) : store[h] = surface

\* the point of a surface at surface coordinates p
PointFromSurfaceCoords(surface, p) ==
    <<surface.origin[1] + p[1] * surface.u[1] + p[2] * surface.v[1],
      surface.origin[2] + p[1] * surface.u[2] + p[2] * surface.v[2],
      surface.origin[3] + p[1] * surface.u[3] + p[2] * surface.v[3]>>

\* the vector of a surface at surface coordinates d
VectorFromSurfaceCoords(surface, d) ==
    PointFromSurfaceCoords([surface EXCEPT !.origin = <<0, 0, 0>>], d)

\* Line::from_points_with_line_coords([(ta, a), (tb, b)]): the line that is
\* at a for the coordinate ta and at b for the coordinate tb
LineFromPointsWithLineCoords(ta, a, tb, b) ==
    [origin |-> <<a[1] - ta * ((b[1] - a[1]) \div (tb - ta)),
                  a[2] - ta * ((b[2] - a[2]) \div (tb - ta))>>,
     direction |-> <<(b[1] - a[1]) \div (tb - ta), (b[2] - a[2]) \div (tb - ta)>>]

\* HalfEdge::new(curve, boundary, global_form)
HalfEdgeNew(curve, boundary, global_form) ==
    [kind |-> "HalfEdge", curve |-> curve, boundary |-> boundary,
     global_form |-> global_form]

\* HalfEdge::boundary and HalfEdge::surface_vertices
Boundary(half_edge) == <<half_edge.boundary[1][1], half_edge.boundary[2][1]>>

\* A seeded fault: the surface vertices come out in the opposite order.
SurfaceVerticesSwapped(half_edge) ==
    <<half_edge.boundary[2][2], half_edge.boundary[1][2]>>

SurfaceVertices(half_edge) == <<half_edge.boundary[1][2], half_edge.boundary[2][2]>>

\* a stored GlobalEdge: GlobalEdge::new normalizes the order of the vertices
StoredGlobalEdge(curve, pair) ==
    [kind |-> "GlobalEdge", curve |-> GlobalEdgeNew(curve, pair).curve,
     vertices |-> AccessInNormalizedOrder(GlobalEdgeNew(curve, pair))]

\* PartialHalfEdge::update_as_line_segment_from_points(surface, [a, b]),
\* build and insert: the line through a and b with the coordinates 0 and 1,
\* its global curve, the two vertices in both forms and the global edge
LineSegmentFromPoints(store, surface, a, b) ==
    LET line == LineFromPointsWithLineCoords(0, a, 1, b)
        ga == Insert(store, [kind |-> "GlobalVertex",
                  position |-> PointFromSurfaceCoords(store[surface], a)])
        gb == Insert(ga.objects, [kind |-> "GlobalVertex",
                  position |-> PointFromSurfaceCoords(store[surface], b)])
        gc == Insert(gb.objects,
                  [kind |-> "GlobalCurve",
                   origin |-> PointFromSurfaceCoords(store[surface], line.origin),
                   direction |-> VectorFromSurfaceCoords(store[surface],
                                                         line.direction)])
        c  == Insert(gc.objects, [kind |-> "Curve", surface |-> surface,
                  path |-> line, global_form |-> gc.handle])
        sa == Insert(c.objects, [kind |-> "SurfaceVertex", position |-> a,
                  surface |-> surface, global_form |-> ga.handle])
        sb == Insert(sa.objects, [kind |-> "SurfaceVertex", position |-> b,
                  surface |-> surface, global_form |-> gb.handle])
        ge == Insert(sb.objects, StoredGlobalEdge(gc.handle, <<ga.handle, gb.handle>>))
    IN  Insert(ge.objects,
               HalfEdgeNew(c.handle, <<<<0, sa.handle>>, <<1, sb.handle>>>>, ge.handle))

\* Reverse::reverse of a half-edge: the same curve and global form, the
\* boundary in the opposite order
Reverse(store, half_edge) ==
    Insert(store, HalfEdgeNew(store[half_edge].curve,
                              <<store[half_edge].boundary[2], store[half_edge].boundary[1]>>,
                              store[half_edge].global_form))

\* Sweep for Handle<Curve>: the surface spanned by the curve and the path
CurveSweep(store, curve, path) ==
    Insert(store,
        [kind |-> "Surface",
         origin |-> PointFromSurfaceCoords(store[store[curve].surface], store[curve].path.origin),
         u |-> VectorFromSurfaceCoords(store[store[curve].surface], store[curve].path.direction),
         v |-> path])

\* Sweep for Handle<GlobalVertex>: the global edge from the vertex to the
\* vertex translated by the path; the SweepCache keeps the edge of every
\* vertex swept so far, and a vertex found there is not swept again
GlobalVertexSweep(store, cache, vertex, path) ==
    IF \E c \in cache : c[1] = vertex
    THEN [objects |-> store, cache |-> cache,
          handle |-> (CHOOSE c \in cache : c[1] = vertex)[2]]
    ELSE LET gt == Insert(store, [kind |-> "GlobalVertex",
                       position |-> Plus3(store[vertex].position, path)])
             gc == Insert(gt.objects, [kind |-> "GlobalCurve",
                       origin |-> store[vertex].position, direction |-> path])
             ge == Insert(gc.objects, StoredGlobalEdge(gc.handle, <<vertex, gt.handle>>))
         IN  [objects |-> ge.objects, cache |-> cache \cup {<<vertex, ge.handle>>},
              handle |-> ge.handle]

\* Sweep for (Point<1>, Handle<SurfaceVertex>, Handle<Surface>), given the
\* swept global vertex: the half-edge from the vertex at [t, 0] up to a
\* vertex at [t, 1] whose global form is the far vertex of the global edge
VertexSweep(global, t, surface_vertex, surface) ==
    LET store == global.objects
        from == store[surface_vertex].global_form
        ends == store[global.handle].vertices
        c  == Insert(store, [kind |-> "Curve", surface |-> surface,
                  path |-> LineFromPointsWithLineCoords(0, <<t, 0>>, 1, <<t, 1>>),
                  global_form |-> store[global.handle].curve])
        st == Insert(c.objects, [kind |-> "SurfaceVertex", position |-> <<t, 1>>,
                  surface |-> surface,
                  global_form |-> IF ends[1] = from THEN ends[2] ELSE ends[1]])
        he == Insert(st.objects,
                  HalfEdgeNew(c.handle, <<<<0, surface_vertex>>, <<1, st.handle>>>>,
                              global.handle))
    IN  [objects |-> he.objects, cache |-> global.cache, handle |-> he.handle]

(***************************************************************************)
(* algorithms/sweep/edge.rs: Sweep for (Handle<HalfEdge>, Color)           *)
(*                                                                         *)
(* sw is the state of one call of sweep_with_cache: the half-edge and the  *)
(* path it was called with, the locals surface, bottom_edge, side_edges,   *)
(* top_edge, edges and i, and the position pc in the function.  base is    *)
(* the number of objects the store held when the call began, cache the     *)
(* SweepCache the call works with.                                         *)
(***************************************************************************)
Paths == {<<0, 0, 1>>, <<0, 0, 2>>}

SweepIdle ==
    [pc |-> "idle", count |-> 0, edge |-> 0, path |-> <<0, 0, 0>>, base |-> 0,
     surface |-> 0, bottom_edge |-> 0, side_edges |-> <<>>, top_edge |-> 0,
     edges |-> <<>>, i |-> 0, cycle |-> 0, face |-> 0, expected_face |-> 0,
     cache |-> {}]

\* the half-edges of the sketch: the stored half-edges on the xy-plane
SketchEdges(store) ==
    {h \in 1..Len(store) :
        /\ store[h].kind = "HalfEdge"
        /\ store[store[h].curve].surface = SurfaceHandle(store, XyPlane)}

\* A seeded fault: the side edges are taken in the order they were swept.
CycleEdgesSidesSwapped(bottom_edge, side_edges, top_edge) ==
    <<bottom_edge, side_edges[1], top_edge, side_edges[2]>>

\* lines 138-142: a = bottom_edge, [d, b] = side_edges, c = top_edge, [a, b, c, d]
CycleEdges(bottom_edge, side_edges, top_edge) ==
    <<bottom_edge, side_edges[2], top_edge, side_edges[1]>>

\* A seeded fault: no edge is ever reversed.
NeedsReverseNever(store, prev, next) == FALSE

\* lines 149-155: prev_last.id() != next_first.id()
NeedsReverse(store, prev, next) ==
    SurfaceVertices(store[prev])[2] # SurfaceVertices(store[next])[1]

\* the test's half-edge (lines 193-203) and others like it: a line segment of
\* the sketch is built and inserted
NewLineSegment ==
    /\ sw.pc = "idle"
    /\ \E s \in {<<<<0, 0>>, <<1, 0>>>>, <<<<1, 0>>, <<1, 1>>>>} :
          objects' = LineSegmentFromPoints(objects, SurfaceHandle(objects, XyPlane),
                                           s[1], s[2]).objects
    /\ objects' # objects
    /\ UNCHANGED <<shapeVars, o3d, sw, sk, restVars>>

\* a half-edge of the sketch is reversed
ReverseSegment ==
    /\ sw.pc = "idle"
    /\ \E h \in SketchEdges(objects) : objects' = Reverse(objects, h).objects
    /\ objects' # objects
    /\ UNCHANGED <<shapeVars, o3d, sw, sk, restVars>>

\* lines 28-32: the state of a call that has swept the curve of the half-edge
SweepEntry(count, edge, path, cache) ==
    [SweepIdle EXCEPT
        !.pc = "bottom_edge", !.count = count, !.edge = edge, !.path = path,
        !.cache = cache, !.base = Len(objects),
        !.surface = CurveSweep(objects, objects[edge].curve, path).handle]

\* Sweep::sweep of a half-edge of the sketch, with a cache of its own
SweepSurface ==
    /\ sw.pc \in {"idle", "done"}
    /\ sk.pc = "idle"
    /\ sw.count < MaxSweeps
    /\ \E edge \in SketchEdges(objects), path \in Paths :
          /\ objects' = CurveSweep(objects, objects[edge].curve, path).objects
          /\ sw' = SweepEntry(sw.count + 1, edge, path, {})
    /\ UNCHANGED <<shapeVars, o3d, sk, restVars>>

\* lines 37-82: the bottom edge, the swept half-edge on the side surface
BottomEdge ==
    /\ sw.pc = "bottom_edge"
    /\ LET t == Boundary(objects[sw.edge])
           curve == Insert(objects, [kind |-> "Curve", surface |-> sw.surface,
                        path |-> LineFromPointsWithLineCoords(
                                     t[1], <<t[1], 0>>, t[2], <<t[2], 0>>),
                        global_form |-> objects[objects[sw.edge].curve].global_form])
           va == Insert(curve.objects,
                     [kind |-> "SurfaceVertex", position |-> <<t[1], 0>>,
                      surface |-> sw.surface,
                      global_form |->
                          objects[SurfaceVertices(objects[sw.edge])[1]].global_form])
           vb == Insert(va.objects,
                     [kind |-> "SurfaceVertex", position |-> <<t[2], 0>>,
                      surface |-> sw.surface,
                      global_form |->
                          objects[SurfaceVertices(objects[sw.edge])[2]].global_form])
           bottom_edge == Insert(vb.objects,
                     HalfEdgeNew(curve.handle,
                                 <<<<t[1], va.handle>>, <<t[2], vb.handle>>>>,
                                 objects[sw.edge].global_form))
       IN  /\ objects' = bottom_edge.objects
           /\ sw' = [sw EXCEPT !.pc = "side_edges", !.bottom_edge = bottom_edge.handle]
    /\ UNCHANGED <<shapeVars, o3d, sk, restVars>>

\* lines 84-90: one side edge for each vertex of the bottom edge
SideEdges ==
    /\ sw.pc = "side_edges"
    /\ LET t == Boundary(objects[sw.bottom_edge])
           v == SurfaceVertices(objects[sw.bottom_edge])
           first == VertexSweep(
                        GlobalVertexSweep(objects, sw.cache,
                                          objects[v[1]].global_form, sw.path),
                        t[1], v[1], sw.surface)
           second == VertexSweep(
                         GlobalVertexSweep(first.objects, first.cache,
                                           objects[v[2]].global_form, sw.path),
                         t[2], v[2], sw.surface)
       IN  /\ objects' = second.objects
           /\ sw' = [sw EXCEPT !.pc = "top_edge", !.cache = second.cache,
                               !.side_edges = <<first.handle, second.handle>>]
    /\ UNCHANGED <<shapeVars, o3d, sk, restVars>>

\* lines 92-135: the top edge between the upper vertices of the side edges,
\* on the global curve of the bottom edge translated by the path
TopEdge ==
    /\ sw.pc = "top_edge"
    /\ LET surface_vertices == <<SurfaceVertices(objects[sw.side_edges[1]])[2],
                                 SurfaceVertices(objects[sw.side_edges[2]])[2]>>
           t == Boundary(objects[sw.bottom_edge])
           below == objects[objects[objects[sw.bottom_edge].curve].global_form]
           global == Insert(objects, [kind |-> "GlobalCurve",
                         origin |-> Plus3(below.origin, sw.path),
                         direction |-> below.direction])
           curve == Insert(global.objects, [kind |-> "Curve", surface |-> sw.surface,
                        path |-> LineFromPointsWithLineCoords(
                                     t[1], <<t[1], 1>>, t[2], <<t[2], 1>>),
                        global_form |-> global.handle])
           edge == Insert(curve.objects,
                       StoredGlobalEdge(global.handle,
                           <<objects[surface_vertices[1]].global_form,
                             objects[surface_vertices[2]].global_form>>))
           top_edge == Insert(edge.objects,
                       HalfEdgeNew(curve.handle,
                                   <<<<t[1], surface_vertices[1]>>,
                                     <<t[2], surface_vertices[2]>>>>,
                                   edge.handle))
       IN  /\ objects' = top_edge.objects
           /\ sw' = [sw EXCEPT !.pc = "cycle", !.top_edge = top_edge.handle]
    /\ UNCHANGED <<shapeVars, o3d, sk, restVars>>

\* lines 138-145
CycleBegin ==
    /\ sw.pc = "cycle"
    /\ sw' = [sw EXCEPT !.pc = "orient", !.i = 0,
                        !.edges = CycleEdges(sw.bottom_edge, sw.side_edges, sw.top_edge)]
    /\ UNCHANGED <<shapeVars, o3d, objects, sk, restVars>>

\* lines 146-160: one iteration of the loop; edges are indexed from 1 here
OrientEdge ==
    /\ sw.pc = "orient"
    /\ sw.i < Len(sw.edges)
    /\ LET i == sw.i + 1
           j == ((sw.i + 1) % Len(sw.edges)) + 1
       IN  IF NeedsReverse(objects, sw.edges[i], sw.edges[j])
           THEN /\ objects' = Reverse(objects, sw.edges[j]).objects
                /\ sw' = [sw EXCEPT !.i = sw.i + 1,
                                    !.edges[j] = Reverse(objects, sw.edges[j]).handle]
           ELSE /\ objects' = objects
                /\ sw' = [sw EXCEPT !.i = sw.i + 1]
    /\ UNCHANGED <<shapeVars, o3d, sk, restVars>>

\* lines 162-170: the loop is over; the cycle and the face are inserted
FaceBuild ==
    /\ sw.pc = "orient"
    /\ sw.i >= Len(sw.edges)
    /\ LET cycle == Insert(objects, [kind |-> "Cycle", half_edges |-> sw.edges])
           face == Insert(cycle.objects,
                       [kind |-> "Face",
                        surface |-> objects[objects[sw.edges[1]].curve].surface,
                        exterior |-> cycle.handle, color |-> "default"])
       IN  /\ objects' = face.objects
           /\ sw' = [sw EXCEPT !.pc = "done", !.cycle = cycle.handle,
                               !.face = face.handle]
    /\ UNCHANGED <<shapeVars, o3d, sk, restVars>>

\* the test of lines 189-309: after the half-edge from (0, 0) to (1, 0) was
\* swept along (0, 0, 1), the expected face is built on the xz-plane from
\* bottom, side_up, top and side_down, the last two built upwards and reversed
ExpectedFace ==
    /\ sw.pc = "done"
    /\ sw.expected_face = 0
    /\ sw.path = <<0, 0, 1>>
    /\ sw.edge = LineSegmentFromPoints(objects, SurfaceHandle(objects, XyPlane),
                                       <<0, 0>>, <<1, 0>>).handle
    /\ LET surface == SurfaceHandle(objects, XzPlane)
           bottom == LineSegmentFromPoints(objects, surface, <<0, 0>>, <<1, 0>>)
           side_up == LineSegmentFromPoints(bottom.objects, surface, <<1, 0>>, <<1, 1>>)
           top_built == LineSegmentFromPoints(side_up.objects, surface, <<0, 1>>, <<1, 1>>)
           top == Reverse(top_built.objects, top_built.handle)
           side_built == LineSegmentFromPoints(top.objects, surface, <<0, 0>>, <<0, 1>>)
           side_down == Reverse(side_built.objects, side_built.handle)
           cycle == Insert(side_down.objects,
                        [kind |-> "Cycle",
                         half_edges |-> <<bottom.handle, side_up.handle,
                                          top.handle, side_down.handle>>])
           face == Insert(cycle.objects,
                       [kind |-> "Face", surface |-> surface,
                        exterior |-> cycle.handle, color |-> "default"])
       IN  /\ objects' = face.objects
           /\ sw' = [sw EXCEPT !.expected_face = face.handle]
    /\ UNCHANGED <<shapeVars, o3d, sk, restVars>>

(***************************************************************************)
(* algorithms/sweep/sketch.rs: Sweep for Handle<Sketch>                    *)
(*                                                                         *)
(* sk is the state of one call: the path and the cache it was called with, *)
(* the faces still to sweep, the shells pushed so far, and, while a face   *)
(* is swept, the half-edges of the face still to sweep (todo) and the      *)
(* faces of its shell so far.  calls keeps the arguments of every face     *)
(* sweep the call has made.                                                *)
(***************************************************************************)
SketchIdle ==
    [pc |-> "idle", drawn |-> <<>>, sketch |-> 0, path |-> <<0, 0, 0>>,
     cache |-> {}, faces |-> <<>>, shells |-> <<>>, face |-> 0, todo |-> <<>>,
     shell_faces |-> <<>>, calls |-> <<>>, solid |-> 0]

\* an edge of a face from a to b: the reversal of the half-edge from b to a
\* where the surface has one (the two then are the two sides of one edge on
\* one curve), a new line segment otherwise
Segment(store, surface, a, b) ==
    LET opposite == {h \in 1..Len(store) :
                        /\ store[h].kind = "HalfEdge"
                        /\ store[store[h].curve].surface = surface
                        /\ store[store[h].boundary[1][2]].position = b
                        /\ store[store[h].boundary[2][2]].position = a}
    IN  IF opposite # {}
        THEN Reverse(store, CHOOSE h \in opposite : TRUE)
        ELSE LineSegmentFromPoints(store, surface, a, b)

\* the half-edges of a polygon, from the k-th corner on, built and inserted
\* behind the ones built so far
RECURSIVE PolygonEdges(_, _, _, _)
PolygonEdges(built, surface, points, k) ==
    IF k > Len(points)
    THEN built
    ELSE PolygonEdges(
             [objects |-> Segment(built.objects, surface, points[k],
                                  points[(k % Len(points)) + 1]).objects,
              handles |-> Append(built.handles,
                                 Segment(built.objects, surface, points[k],
                                         points[(k % Len(points)) + 1]).handle)],
             surface, points, k + 1)

\* the face of a surface bounded by a polygon: its half-edges, their cycle
\* and the face of the cycle, built and inserted
PolygonFace(store, surface, points) ==
    LET edges == PolygonEdges([objects |-> store, handles |-> <<>>],
                              surface, points, 1)
    IN  Insert(Insert(edges.objects,
                      [kind |-> "Cycle", half_edges |-> edges.handles]).objects,
               [kind |-> "Face", surface |-> surface,
                exterior |-> Insert(edges.objects,
                                    [kind |-> "Cycle",
                                     half_edges |-> edges.handles]).handle,
                color |-> "default"])

\* TransformObject::translate of a face: the same polygon on the surface
\* moved by the offset
TranslateFace(store, face, offset) ==
    LET surface == Insert(store,
                       [store[store[face].surface] EXCEPT
                           !.origin = Plus3(store[store[face].surface].origin, offset)])
        edges == store[store[face].exterior].half_edges
    IN  PolygonFace(surface.objects, surface.handle,
                    [k \in 1..Len(edges) |->
                        store[SurfaceVertices(store[edges[k]])[1]].position])

\* A seeded fault: a shell replaces the shells pushed before it.
PushShellKeepsLast(shells, shell) == <<shell>>

\* line 27: shells.push(shell)
PushShell(shells, shell) == Append(shells, shell)

\* a face is drawn on the xy-plane
DrawFace ==
    /\ sk.pc = "idle"
    /\ sk.sketch = 0
    /\ Len(sk.drawn) < MaxFaces
    /\ \E polygon \in {<<<<0, 0>>, <<1, 0>>, <<1, 1>>, <<0, 1>>>>,
                         <<<<1, 0>>, <<2, 0>>, <<2, 1>>, <<1, 1>>>>} :
          LET face == PolygonFace(objects, SurfaceHandle(objects, XyPlane), polygon)
          IN  /\ face.handle \notin {sk.drawn[k] : k \in 1..Len(sk.drawn)}
              /\ objects' = face.objects
              /\ sk' = [sk EXCEPT !.drawn = Append(sk.drawn, face.handle)]
    /\ UNCHANGED <<shapeVars, o3d, sw, restVars>>

\* the faces drawn make a sketch
NewSketch ==
    /\ sk.pc = "idle"
    /\ sk.sketch = 0
    /\ sk.drawn # <<>>
    /\ objects' = Insert(objects, [kind |-> "Sketch", faces |-> sk.drawn]).objects
    /\ sk' = [sk EXCEPT !.sketch = Insert(objects, [kind |-> "Sketch",
                                                   faces |-> sk.drawn]).handle]
    /\ UNCHANGED <<shapeVars, o3d, sw, restVars>>

\* lines 13-23: the call begins with a path and an empty list of shells
SketchSweepBegin ==
    /\ sk.pc = "idle"
    /\ sk.sketch # 0
    /\ \E path \in Paths :
          sk' = [sk EXCEPT !.pc = "faces", !.path = path,
                           !.faces = objects[sk.sketch].faces]
    /\ UNCHANGED <<shapeVars, o3d, objects, sw, restVars>>

\* lines 24-26: the next face is swept along the path with the cache; the
\* sweep of a face begins with the face itself as the bottom of its shell
FaceSweepBegin ==
    /\ sk.pc = "faces"
    /\ sk.faces # <<>>
    /\ sk' = [sk EXCEPT
                 !.pc = "edges", !.face = Head(sk.faces),
                 !.todo = objects[objects[Head(sk.faces)].exterior].half_edges,
                 !.shell_faces = <<Head(sk.faces)>>,
                 !.calls = Append(sk.calls,
                               [face |-> Head(sk.faces), path |-> sk.path,
                                cache |-> sk.cache])]
    /\ UNCHANGED <<shapeVars, o3d, objects, sw, restVars>>

\* the sweep of a face sweeps the next half-edge of the face
FaceSweepCall ==
    /\ sk.pc = "edges"
    /\ sk.todo # <<>>
    /\ objects' = CurveSweep(objects, objects[Head(sk.todo)].curve, sk.path).objects
    /\ sw' = SweepEntry(1, Head(sk.todo), sk.path, sk.cache)
    /\ sk' = [sk EXCEPT !.pc = "running"]
    /\ UNCHANGED <<shapeVars, o3d, restVars>>

\* the sweep of the half-edge has returned a side face
FaceSweepReturn ==
    /\ sk.pc = "running"
    /\ sw.pc = "done"
    /\ sk' = [sk EXCEPT !.pc = "edges", !.todo = Tail(sk.todo),
                        !.cache = sw.cache,
                        !.shell_faces = Append(sk.shell_faces, sw.face)]
    /\ UNCHANGED <<shapeVars, o3d, objects, sw, restVars>>

\* the sweep of the face ends with the top face and returns the shell;
\* line 27: the shell is pushed
FaceSweepEnd ==
    /\ sk.pc = "edges"
    /\ sk.todo = <<>>
    /\ LET top == TranslateFace(objects, sk.face, sk.path)
           shell == Insert(top.objects,
                        [kind |-> "Shell",
                         faces |-> Append(sk.shell_faces, top.handle)])
       IN  /\ objects' = shell.objects
           /\ sk' = [sk EXCEPT !.pc = "faces", !.faces = Tail(sk.faces),
                               !.shells = PushShell(sk.shells, shell.handle)]
    /\ UNCHANGED <<shapeVars, o3d, sw, restVars>>

\* lines 30-32: the solid of the shells is built and inserted
SolidBuild ==
    /\ sk.pc = "faces"
    /\ sk.faces = <<>>
    /\ objects' = Insert(objects, [kind |-> "Solid", shells |-> sk.shells]).objects
    /\ sk' = [sk EXCEPT !.pc = "done",
                        !.solid = Insert(objects, [kind |-> "Solid",
                                                   shells |-> sk.shells]).handle]
    /\ UNCHANGED <<shapeVars, o3d, sw, restVars>>

(***************************************************************************)
(* Approx for &Sketch (algorithms/approx/sketch.rs).  A call approximates  *)
(* the faces of the sketch one after the other; a face approximates the    *)
(* half-edges of its exterior cycle, and a half-edge takes the points of   *)
(* its global curve from the cache when the cache has them.  ap holds the  *)
(* tolerance and the cache of the call, the faces still to approximate,    *)
(* the approximation so far and a log of every curve approximation made.   *)
(***************************************************************************)
MaxApprox == 2      \* approximation calls in one behaviour

ApproxIdle ==
    [pc |-> "idle", calls |-> 0, tolerance |-> 0, cache |-> {}, cache_id |-> 0,
     todo |-> {}, result |-> {}, log |-> {}]

\* the identity of the global curve of a stored half-edge
GlobalCurveId(store, half_edge) == store[store[half_edge].global_form].curve

\* the approximation of a line: its two end points, in the direction of
\* the half-edge
LinePoints(store, half_edge) ==
    <<store[store[SurfaceVertices(store[half_edge])[1]].global_form].position,
      store[store[SurfaceVertices(store[half_edge])[2]].global_form].position>>

\* the points of a half-edge: those the cache holds for its curve, and
\* those of the line computed anew when it holds none
CachedPoints(store, half_edge, cache) ==
    IF \E c \in cache : c[1] = GlobalCurveId(store, half_edge)
    THEN (CHOOSE c \in cache : c[1] = GlobalCurveId(store, half_edge))[2]
    ELSE LinePoints(store, half_edge)

\* the approximation of one more half-edge behind those made so far: its
\* points go into the cache and behind the points of the edges before it
EdgeApproxed(store, half_edge, done) ==
    [cache |-> done.cache \cup {<<GlobalCurveId(store, half_edge),
                                  CachedPoints(store, half_edge, done.cache)>>},
     edges |-> Append(done.edges,
                      [curve |-> GlobalCurveId(store, half_edge),
                       points |-> CachedPoints(store, half_edge, done.cache)])]

\* the approximation of the half-edges of a cycle from the k-th on
RECURSIVE CycleApprox(_, _, _, _)
CycleApprox(store, half_edges, k, done) ==
    IF k > Len(half_edges) THEN done
    ELSE CycleApprox(store, half_edges, k + 1,
                     EdgeApproxed(store, half_edges[k], done))

\* A seeded fault: every face is approximated with a cache of its own.
ForFacesFreshCache(tolerance, cache) == [tolerance |-> tolerance, cache |-> {}]

\* line 18: the faces are approximated with the tolerance and the cache of
\* the call
ForFaces(tolerance, cache) == [tolerance |-> tolerance, cache |-> cache]

\* lines 13-17: a sketch is approximated with a tolerance and a cache,
\* either a new cache or the one the call before has left
ApproxBegin ==
    /\ ap.pc = "idle"
    /\ sk.pc = "idle"
    /\ sk.sketch # 0
    /\ ap.calls < MaxApprox
    /\ \E tolerance \in {1, 2}, reuse \in BOOLEAN :
          /\ reuse => ap.calls > 0
          /\ ap' = [ap EXCEPT
                       !.pc = "faces", !.calls = ap.calls + 1,
                       !.tolerance = tolerance,
                       !.cache = IF reuse THEN ap.cache ELSE {},
                       !.cache_id = IF reuse THEN ap.cache_id ELSE ap.calls + 1,
                       !.todo = {objects[sk.sketch].faces[k] :
                                    k \in 1..Len(objects[sk.sketch].faces)},
                       !.result = {}]
    /\ UNCHANGED <<shapeVars, o3d, sweepVars, legacyVars, uiVars>>

\* the approximation of a face: the approximation of its exterior cycle
\* with what the face is given
FaceApproximation(store, face, given) ==
    CycleApprox(store, store[store[face].exterior].half_edges, 1,
                [cache |-> given.cache, edges |-> <<>>])

\* line 18, one face of the set: the face is approximated with what the
\* sketch hands on, the cache keeps what the face has added, and the log
\* gets an entry for every edge of the face
FaceApprox ==
    /\ ap.pc = "faces"
    /\ \E face \in ap.todo :
          ap' = [ap EXCEPT
                    !.todo = ap.todo \ {face},
                    !.cache = FaceApproximation(objects, face,
                                  ForFaces(ap.tolerance, ap.cache)).cache,
                    !.result = ap.result \cup
                        {[face |-> face,
                          exterior |-> FaceApproximation(objects, face,
                                           ForFaces(ap.tolerance, ap.cache)).edges]},
                    !.log = ap.log \cup
                        {[call |-> ap.calls, cache |-> ap.cache_id,
                          tolerance |-> ForFaces(ap.tolerance, ap.cache).tolerance,
                          face |-> face, curve |-> e.curve, points |-> e.points] :
                         e \in {FaceApproximation(objects, face,
                                    ForFaces(ap.tolerance, ap.cache)).edges[k] :
                                k \in 1..Len(objects[objects[face].exterior].half_edges)}}]
    /\ UNCHANGED <<shapeVars, o3d, sweepVars, legacyVars, uiVars>>

\* lines 18-19: the approximations of all the faces are returned
ApproxEnd ==
    /\ ap.pc = "faces"
    /\ ap.todo = {}
    /\ ap' = [ap EXCEPT !.pc = "idle"]
    /\ UNCHANGED <<shapeVars, o3d, sweepVars, legacyVars, uiVars>>

(***************************************************************************)
(* sweep_shape (src/kernel/algorithms/sweep.rs).  A shape is the list of   *)
(* its faces and the list of its cycles; a face is a value, a surface and  *)
(* cycles of edges between points, or a list of triangles.  ss holds the   *)
(* arguments and the result of the latest call.                            *)
(***************************************************************************)
MaxShapeFaces == 2      \* faces of an original shape

\* tests, Triangle::new([a, b, c]): the face of the cycle ab, bc, ca of line
\* segments on the plane through the three points
TriangleFace(t) ==
    LET d(p, q) == <<q[1] - p[1], q[2] - p[2], q[3] - p[3]>>
        segment(p, q) == [curve |-> [origin |-> p, direction |-> d(p, q)],
                          vertices |-> <<p, q>>]
    IN  [kind |-> "Face",
         surface |-> [origin |-> t[1], u |-> d(t[1], t[2]), v |-> d(t[1], t[3])],
         cycles |-> <<<<segment(t[1], t[2]), segment(t[2], t[3]),
                        segment(t[3], t[1])>>>>]

\* transform_face with a translation: the surface, the curves and the
\* vertices of the face moved by the path
TransformFace(face, path) ==
    [kind |-> "Face",
     surface |-> [face.surface EXCEPT !.origin = Plus3(@, path)],
     cycles |-> [c \in DOMAIN face.cycles |->
                    [e \in DOMAIN face.cycles[c] |->
                        [curve |-> [face.cycles[c][e].curve EXCEPT
                                       !.origin = Plus3(@, path)],
                         vertices |-> <<Plus3(face.cycles[c][e].vertices[1], path),
                                        Plus3(face.cycles[c][e].vertices[2], path)>>]]]]

\* lines 34-59: the side face of a cycle, two triangles [v0, v1, v2] and
\* [v0, v2, v3] for the quad of every segment of its approximation
SideFace(cycle, path) ==
    [kind |-> "Triangles",
     triangles |->
        [i \in 1..(2 * Len(cycle)) |->
            IF i % 2 = 1
            THEN <<cycle[(i + 1) \div 2].vertices[1],
                   cycle[(i + 1) \div 2].vertices[2],
                   Plus3(cycle[(i + 1) \div 2].vertices[2], path)>>
            ELSE <<cycle[(i + 1) \div 2].vertices[1],
                   Plus3(cycle[(i + 1) \div 2].vertices[2], path),
                   Plus3(cycle[(i + 1) \div 2].vertices[1], path)>>]]

\* A seeded fault: the top faces are not added to the shape.
SweptFacesWithoutTop(bottom_faces, top_faces, side_faces) ==
    bottom_faces \o side_faces

\* lines 62-70: the faces added to the new shape, in their order
SweptFaces(bottom_faces, top_faces, side_faces) ==
    bottom_faces \o top_faces \o side_faces

\* sweep_shape(original, path, tolerance): lines 17-72
SweepShapeOf(original, path, tolerance) ==
    [faces |-> SweptFaces(
                   [k \in DOMAIN original.faces |-> original.faces[k]],
                   [k \in DOMAIN original.faces |->
                       TransformFace(original.faces[k], path)],
                   [k \in DOMAIN original.cycles |->
                       SideFace(original.cycles[k], path)])]

\* a shape of triangles is swept along a path
SweepShape ==
    /\ \E n \in 1..MaxShapeFaces :
       \E triangles \in [1..n -> {<<<<0, 0, 0>>, <<1, 0, 0>>, <<0, 1, 0>>>>,
                                  <<<<2, 0, 0>>, <<3, 0, 0>>, <<2, 1, 0>>>>,
                                  <<<<0, 2, 0>>, <<1, 2, 0>>, <<0, 3, 0>>>>,
                                  <<<<1, 0, 0>>, <<2, 0, 0>>, <<1, 1, 0>>>>}] :
       \E path \in {<<0, 0, 1>>, <<0, 0, 2>>, <<1, 0, 1>>},
          tolerance \in {0, 1, 2} :
          /\ \A i \in 1..n, j \in 1..n : i # j => triangles[i] # triangles[j]
          /\ ss' = [pc |-> "done", triangles |-> triangles, path |-> path,
                    tolerance |-> tolerance,
                    original |-> [faces |-> [k \in 1..n |-> TriangleFace(triangles[k])],
                                  cycles |-> [k \in 1..n |->
                                                 TriangleFace(triangles[k]).cycles[1]]],
                    swept |-> SweepShapeOf(
                                 [faces |-> [k \in 1..n |-> TriangleFace(triangles[k])],
                                  cycles |-> [k \in 1..n |->
                                                 TriangleFace(triangles[k]).cycles[1]]],
                                 path, tolerance)]
    /\ UNCHANGED <<shapeVars, o3d, sweepVars, ap, grid, uiVars>>

(***************************************************************************)
(* The isosurface grid (fj/src/geometry/isosurface/grid/mod.rs).  Lengths  *)
(* are counted in halves of the resolution: the resolution is 2, the grid  *)
(* vertex with the index i lies at 2 * i - 1 on every axis and the surface *)
(* vertex of the cell with the index i at 2 * i.  grid holds the grid      *)
(* built, the edges the latest Grid::edges call has returned and the       *)
(* argument and the outcome of the latest Grid::neighbors_of_edge call.    *)
(***************************************************************************)
GridSize == 3       \* grid vertices along one axis

\* Grid::from_descriptor, lines 29-71: a surface vertex for every cell and
\* the position and the distance of every grid vertex whose distance from
\* the isosurface is at most the resolution
GridFromDescriptor(size, isosurface) ==
    LET position(index) == <<2 * index[1] - 1, 2 * index[2] - 1, 2 * index[3] - 1>>
        distance(point) ==
            CASE isosurface.kind = "everywhere" -> 0
              [] isosurface.kind = "plane" ->
                    Abs(point[isosurface.axis] - isosurface.at)
              [] isosurface.kind = "ball" ->
                    Abs(point[1] - isosurface.at) + Abs(point[2] - isosurface.at)
                        + Abs(point[3] - isosurface.at) - isosurface.radius
    IN  [size |-> size,
         surface_vertices |->
            [cell \in (0..(size - 2)) \X (0..(size - 2)) \X (0..(size - 2)) |->
                <<2 * cell[1], 2 * cell[2], 2 * cell[3]>>],
         grid_vertex_values |->
            [index \in {i \in (0..(size - 1)) \X (0..(size - 1)) \X (0..(size - 1)) :
                           distance(position(i)) <= 2} |->
                [point |-> position(index), value |-> distance(position(index))]]]

\* A seeded fault: an edge is made also when the next vertex is absent.
EdgeToNextUnchecked(index, next_index, values) ==
    [some |-> TRUE,
     a |-> [index |-> index, point |-> values[index].point,
            value |-> values[index].value],
     b |-> [index |-> next_index,
            point |-> IF next_index \in DOMAIN values
                      THEN values[next_index].point ELSE <<0, 0, 0>>,
            value |-> IF next_index \in DOMAIN values
                      THEN values[next_index].value ELSE 0]]

\* edge_to_next, lines 163-189: the edge from the vertex to the next one,
\* or none where the next vertex has no value
EdgeToNext(index, next_index, values) ==
    IF next_index \notin DOMAIN values
    THEN [some |-> FALSE]
    ELSE [some |-> TRUE,
          a |-> [index |-> index, point |-> values[index].point,
                 value |-> values[index].value],
          b |-> [index |-> next_index, point |-> values[next_index].point,
                 value |-> values[next_index].value]]

\* Grid::edges, lines 74-109: for every vertex with a value, in the order
\* of the indices, the edges to the next vertex along z, y and x that exist
GridEdges(g) ==
    LET index(p) == <<((p - 1) \div 3) \div (g.size * g.size),
                      (((p - 1) \div 3) \div g.size) % g.size,
                      ((p - 1) \div 3) % g.size>>
        next(p) == CASE (p - 1) % 3 = 0 -> Plus3(index(p), <<0, 0, 1>>)
                     [] (p - 1) % 3 = 1 -> Plus3(index(p), <<0, 1, 0>>)
                     [] (p - 1) % 3 = 2 -> Plus3(index(p), <<1, 0, 0>>)
    IN  SelectSeq([p \in 1..(3 * g.size * g.size * g.size) |->
                      IF index(p) \in DOMAIN g.grid_vertex_values
                      THEN EdgeToNext(index(p), next(p), g.grid_vertex_values)
                      ELSE [some |-> FALSE]],
                  LAMBDA edge : edge.some)

\* Edge::direction: the axis the edge runs along and the sign of its step
EdgeDirection(edge) ==
    LET axis == CHOOSE k \in 1..3 : edge.a.index[k] # edge.b.index[k]
    IN  [axis |-> axis,
         sign |-> IF edge.b.index[axis] > edge.a.index[axis] THEN "Pos" ELSE "Neg"]

\* Edge::reverse: the edge from b to a
EdgeReverse(edge) == [edge EXCEPT !.a = edge.b, !.b = edge.a]

\* Edge::swap_values: the same two vertices with their values exchanged
EdgeSwapValues(edge) ==
    [edge EXCEPT !.a.value = edge.b.value, !.b.value = edge.a.value]

\* A seeded fault: the cells are taken in one order whatever the values are.
NeighborsOfEdgeOneWinding(g, edge) ==
    LET direction == EdgeDirection(edge)
        offsets ==
            CASE direction.axis = 3 ->
                    <<<<0, -1, 0>>, <<-1, -1, 0>>, <<-1, 0, 0>>, <<0, 0, 0>>>>
              [] direction.axis = 2 ->
                    <<<<-1, 0, -1>>, <<0, 0, -1>>, <<0, 0, 0>>, <<-1, 0, 0>>>>
              [] direction.axis = 1 ->
                    <<<<0, 0, -1>>, <<0, -1, -1>>, <<0, -1, 0>>, <<0, 0, 0>>>>
        start == IF direction.sign = "Neg" THEN edge.b.index ELSE edge.a.index
        keys == [k \in 1..4 |-> Plus3(start, offsets[k])]
    IN  IF \A k \in 1..4 : keys[k] \in DOMAIN g.surface_vertices
        THEN [panicked |-> FALSE,
              neighbors |-> [k \in 1..4 |-> g.surface_vertices[keys[k]]]]
        ELSE [panicked |-> TRUE, neighbors |-> <<>>]

\* A seeded fault: the neighbors are taken around the vertex a of the edge
\* whatever the direction is.
NeighborsOfEdgeFromA(g, edge) ==
    LET direction == EdgeDirection(edge)
        offsets ==
            CASE direction.axis = 3 ->
                    <<<<0, -1, 0>>, <<-1, -1, 0>>, <<-1, 0, 0>>, <<0, 0, 0>>>>
              [] direction.axis = 2 ->
                    <<<<-1, 0, -1>>, <<0, 0, -1>>, <<0, 0, 0>>, <<-1, 0, 0>>>>
              [] direction.axis = 1 ->
                    <<<<0, 0, -1>>, <<0, -1, -1>>, <<0, -1, 0>>, <<0, 0, 0>>>>
        order == IF \/ direction.sign = "Pos" /\ edge.a.value < edge.b.value
                    \/ direction.sign = "Neg" /\ edge.b.value < edge.a.value
                 THEN <<2, 1, 4, 3>> ELSE <<1, 2, 3, 4>>
        keys == [k \in 1..4 |-> Plus3(edge.a.index, offsets[order[k]])]
    IN  IF \A k \in 1..4 : keys[k] \in DOMAIN g.surface_vertices
        THEN [panicked |-> FALSE,
              neighbors |-> [k \in 1..4 |-> g.surface_vertices[keys[k]]]]
        ELSE [panicked |-> TRUE, neighbors |-> <<>>]

\* Grid::neighbors_of_edge, lines 112-160: the offsets of the four cells
\* around an edge along the axis, the start of the edge, the order of the
\* offsets and the surface vertices of the cells; the lookup of a cell the
\* grid does not have panics
NeighborsOfEdge(g, edge) ==
    LET direction == EdgeDirection(edge)
        offsets ==
            CASE direction.axis = 3 ->
                    <<<<0, -1, 0>>, <<-1, -1, 0>>, <<-1, 0, 0>>, <<0, 0, 0>>>>
              [] direction.axis = 2 ->
                    <<<<-1, 0, -1>>, <<0, 0, -1>>, <<0, 0, 0>>, <<-1, 0, 0>>>>
              [] direction.axis = 1 ->
                    <<<<0, 0, -1>>, <<0, -1, -1>>, <<0, -1, 0>>, <<0, 0, 0>>>>
        start == IF direction.sign = "Neg" THEN edge.b.index ELSE edge.a.index
        order == IF \/ direction.sign = "Pos" /\ edge.a.value < edge.b.value
                    \/ direction.sign = "Neg" /\ edge.b.value < edge.a.value
                 THEN <<2, 1, 4, 3>> ELSE <<1, 2, 3, 4>>
        keys == [k \in 1..4 |-> Plus3(start, offsets[order[k]])]
    IN  IF \A k \in 1..4 : keys[k] \in DOMAIN g.surface_vertices
        THEN [panicked |-> FALSE,
              neighbors |-> [k \in 1..4 |-> g.surface_vertices[keys[k]]]]
        ELSE [panicked |-> TRUE, neighbors |-> <<>>]

\* a grid is made for a descriptor and an isosurface
FromDescriptor ==
    /\ grid.pc = "idle"
    /\ \E isosurface \in
             {[kind |-> "everywhere"]}
                \cup {[kind |-> "plane", axis |-> axis, at |-> at] :
                         axis \in 1..3, at \in {-1, 1, 3}}
                \cup {[kind |-> "ball", at |-> at, radius |-> radius] :
                         at \in {-1, 1, 3}, radius \in {0, 2}} :
          grid' = [pc |-> "built", isosurface |-> isosurface,
                   grid |-> GridFromDescriptor(GridSize, isosurface),
                   edges_called |-> FALSE, edges |-> <<>>,
                   neighbors_called |-> FALSE, edge |-> <<>>,
                   outcome |-> [panicked |-> FALSE, neighbors |-> <<>>]]
    /\ UNCHANGED <<shapeVars, o3d, sweepVars, ap, ss, uiVars>>

\* the edges of the grid are collected, once
Edges ==
    /\ grid.pc = "built"
    /\ ~grid.edges_called
    /\ grid' = [grid EXCEPT !.edges_called = TRUE, !.edges = GridEdges(grid.grid)]
    /\ UNCHANGED <<shapeVars, o3d, sweepVars, ap, ss, uiVars>>

\* the neighbors of an edge between two adjacent indices of the grid are
\* asked for once, the edge in either direction and with any values at its
\* ends
Neighbors ==
    /\ grid.pc = "built"
    /\ ~grid.neighbors_called
    /\ \E from \in (0..(GridSize - 1)) \X (0..(GridSize - 1)) \X (0..(GridSize - 1)),
          step \in {<<1, 0, 0>>, <<0, 1, 0>>, <<0, 0, 1>>},
          backwards \in BOOLEAN, value_a \in 0..1, value_b \in 0..1 :
          /\ \A k \in 1..3 : from[k] + step[k] < GridSize
          /\ LET low == [index |-> from,
                         point |-> <<2 * from[1] - 1, 2 * from[2] - 1, 2 * from[3] - 1>>]
                 high == [index |-> Plus3(from, step),
                          point |-> <<2 * (from[1] + step[1]) - 1,
                                      2 * (from[2] + step[2]) - 1,
                                      2 * (from[3] + step[3]) - 1>>]
                 edge == IF backwards
                         THEN [a |-> high @@ [value |-> value_a],
                               b |-> low @@ [value |-> value_b]]
                         ELSE [a |-> low @@ [value |-> value_a],
                               b |-> high @@ [value |-> value_b]]
             IN  grid' = [grid EXCEPT !.neighbors_called = TRUE, !.edge = edge,
                                      !.outcome = NeighborsOfEdge(grid.grid, edge)]
    /\ UNCHANGED <<shapeVars, o3d, sweepVars, ap, ss, uiVars>>

(***************************************************************************)
(* The event loop of the viewer (fj-window/src/run.rs).  vw holds the      *)
(* locals of run that live across iterations: shape and camera (absent at  *)
(* first), draw_config, previous_cursor and held_mouse_button, the         *)
(* geometry the renderer has, the size of the window and whether the loop  *)
(* has been told to exit.  A shape is the number of the model version it   *)
(* was made from, which also stands for its bounding box; a camera keeps   *)
(* the bounding box it was made from, and where it looks is left out.      *)
(* first and cameras keep the first shape processed and the number of      *)
(* cameras made; last keeps what the latest iteration got and did.         *)
(* Normalized positions are counted in quarters.                           *)
(***************************************************************************)
MaxCameras == 2     \* cameras counted

NoCamera == [some |-> FALSE]

NoViewerEvent == [kind |-> "None"]

ViewerStart ==
    [shape |-> 0, camera |-> NoCamera,
     draw_config |-> [draw_model |-> TRUE, draw_mesh |-> FALSE, draw_debug |-> FALSE],
     previous_cursor |-> [some |-> FALSE], held_mouse_button |-> "None",
     geometry |-> 0, size |-> <<4, 2>>, exit |-> FALSE,
     first |-> 0, cameras |-> 0,
     last |-> [message |-> [kind |-> "none"], event |-> [kind |-> "Other"],
               updated_geometry |-> FALSE, drew |-> FALSE,
               viewer_event |-> NoViewerEvent]]

\* A seeded fault: a processed shape is kept without a camera being made.
ReceiveWithoutCamera(v, message) ==
    IF message.kind = "ok"
    THEN [v EXCEPT !.geometry = message.shape, !.shape = message.shape,
                   !.first = IF v.first = 0 THEN message.shape ELSE v.first,
                   !.last = [@ EXCEPT !.message = message, !.updated_geometry = TRUE]]
    ELSE [v EXCEPT !.last = [@ EXCEPT !.message = message]]

\* A seeded fault: every processed shape gets a camera of its own.
ReceiveNewCamera(v, message) ==
    IF message.kind = "ok"
    THEN [v EXCEPT !.geometry = message.shape, !.shape = message.shape,
                   !.camera = [some |-> TRUE, aabb |-> message.shape],
                   !.cameras = IF v.cameras < MaxCameras THEN v.cameras + 1
                               ELSE v.cameras,
                   !.first = IF v.first = 0 THEN message.shape ELSE v.first,
                   !.last = [@ EXCEPT !.message = message, !.updated_geometry = TRUE]]
    ELSE [v EXCEPT !.last = [@ EXCEPT !.message = message]]

\* A seeded fault: a shape that cannot be processed takes the old one away.
ReceiveErrorClears(v, message) ==
    IF message.kind = "ok"
    THEN [v EXCEPT !.geometry = message.shape, !.shape = message.shape,
                   !.camera = IF v.camera.some THEN v.camera
                              ELSE [some |-> TRUE, aabb |-> message.shape],
                   !.cameras = IF v.camera.some \/ v.cameras >= MaxCameras
                               THEN v.cameras ELSE v.cameras + 1,
                   !.first = IF v.first = 0 THEN message.shape ELSE v.first,
                   !.last = [@ EXCEPT !.message = message, !.updated_geometry = TRUE]]
    ELSE IF message.kind = "err"
    THEN [v EXCEPT !.shape = 0, !.last = [@ EXCEPT !.message = message]]
    ELSE [v EXCEPT !.last = [@ EXCEPT !.message = message]]

\* lines 53-84: what the watcher has delivered is processed; a processed
\* shape goes to the renderer, makes the camera if there is none and
\* becomes the shape; an error is printed
Receive(v, message) ==
    IF message.kind = "ok"
    THEN [v EXCEPT !.geometry = message.shape, !.shape = message.shape,
                   !.camera = IF v.camera.some THEN v.camera
                              ELSE [some |-> TRUE, aabb |-> message.shape],
                   !.cameras = IF v.camera.some \/ v.cameras >= MaxCameras
                               THEN v.cameras ELSE v.cameras + 1,
                   !.first = IF v.first = 0 THEN message.shape ELSE v.first,
                   !.last = [@ EXCEPT !.message = message, !.updated_geometry = TRUE]]
    ELSE [v EXCEPT !.last = [@ EXCEPT !.message = message]]

\* lines 116-148: the window events
WindowEvents(v, event) ==
    IF event.kind = "CloseRequested" THEN [v EXCEPT !.exit = TRUE]
    ELSE IF event.kind = "Resized" THEN [v EXCEPT !.size = event.size]
    ELSE IF event.kind = "RedrawRequested" /\ v.shape # 0 /\ v.camera.some
    THEN [v EXCEPT !.last = [@ EXCEPT !.drew = TRUE]]
    ELSE v

\* A seeded fault: the cursor orbits and pans without a button being held.
ViewerEventAnyButton(v, event) ==
    IF event.kind = "CursorMoved"
    THEN [v EXCEPT
            !.previous_cursor =
                [some |-> TRUE,
                 x |-> ((2 * event.position[1] - v.size[1]) * 4) \div v.size[1],
                 y |-> ((v.size[2] - 2 * event.position[2]) * 4) \div v.size[1]],
            !.last = [@ EXCEPT !.viewer_event =
                IF v.previous_cursor.some
                THEN [kind |-> IF v.held_mouse_button = "Right" THEN "Pan" ELSE "Orbit",
                      previous |-> v.previous_cursor,
                      current |->
                        [some |-> TRUE,
                         x |-> ((2 * event.position[1] - v.size[1]) * 4) \div v.size[1],
                         y |-> ((v.size[2] - 2 * event.position[2]) * 4) \div v.size[1]]]
                ELSE NoViewerEvent]]
    ELSE v

\* lines 151-231: the viewer event an event stands for, and what the
\* cursor and the mouse buttons leave behind
ViewerEvent(v, event) ==
    IF event.kind = "KeyboardInput"
    THEN [v EXCEPT !.last = [@ EXCEPT !.viewer_event =
            IF event.state # "Pressed" THEN NoViewerEvent
            ELSE IF event.key = "Escape" THEN [kind |-> "Exit"]
            ELSE IF event.key = "Key1" THEN [kind |-> "ToggleModel"]
            ELSE IF event.key = "Key2" THEN [kind |-> "ToggleMesh"]
            ELSE IF event.key = "Key3" THEN [kind |-> "ToggleDebug"]
            ELSE NoViewerEvent]]
    ELSE IF event.kind = "CursorMoved"
    THEN [v EXCEPT
            !.previous_cursor =
                [some |-> TRUE,
                 x |-> ((2 * event.position[1] - v.size[1]) * 4) \div v.size[1],
                 y |-> ((v.size[2] - 2 * event.position[2]) * 4) \div v.size[1]],
            !.last = [@ EXCEPT !.viewer_event =
                IF v.previous_cursor.some /\ v.held_mouse_button \in {"Left", "Right"}
                THEN [kind |-> IF v.held_mouse_button = "Left" THEN "Orbit" ELSE "Pan",
                      previous |-> v.previous_cursor,
                      current |->
                        [some |-> TRUE,
                         x |-> ((2 * event.position[1] - v.size[1]) * 4) \div v.size[1],
                         y |-> ((v.size[2] - 2 * event.position[2]) * 4) \div v.size[1]]]
                ELSE NoViewerEvent]]
    ELSE IF event.kind = "MouseInput"
    THEN [v EXCEPT
            !.held_mouse_button = IF event.state = "Pressed" THEN event.button
                                  ELSE "None",
            !.last = [@ EXCEPT !.viewer_event =
                IF v.shape # 0 /\ v.camera.some /\ event.button \in {"Left", "Right"}
                THEN [kind |-> "FocusPoint", cursor |-> v.previous_cursor]
                ELSE NoViewerEvent]]
    ELSE IF event.kind = "MouseWheel"
    THEN [v EXCEPT !.last = [@ EXCEPT !.viewer_event = [kind |-> "Zoom"]]]
    ELSE v

\* lines 233-248: the handler turns the viewer event into a move of the
\* camera or into actions, and the actions are carried out
HandleActions(v) ==
    IF v.last.viewer_event.kind = "None" \/ ~v.camera.some THEN v
    ELSE IF v.last.viewer_event.kind = "Exit" THEN [v EXCEPT !.exit = TRUE]
    ELSE IF v.last.viewer_event.kind = "ToggleModel"
    THEN [v EXCEPT !.draw_config.draw_model = ~@]
    ELSE IF v.last.viewer_event.kind = "ToggleMesh"
    THEN [v EXCEPT !.draw_config.draw_mesh = ~@]
    ELSE IF v.last.viewer_event.kind = "ToggleDebug"
    THEN [v EXCEPT !.draw_config.draw_debug = ~@]
    ELSE v

\* lines 48-249: one iteration of the loop for an event, with what the
\* watcher has to deliver
Closure(v, message, event) ==
    HandleActions(
        ViewerEvent(
            WindowEvents(
                Receive([v EXCEPT !.last = [ViewerStart.last EXCEPT !.event = event]],
                        message),
                event),
            event))

\* the loop gets an event; the watcher has nothing, a new shape that can be
\* processed or one that cannot
Iteration ==
    /\ ~vw.exit
    /\ \E message \in {[kind |-> "none"], [kind |-> "err"]}
                         \cup {[kind |-> "ok", shape |-> n] : n \in 1..2},
          event \in {[kind |-> k] : k \in {"CloseRequested", "MainEventsCleared",
                                           "RedrawRequested", "MouseWheel", "Other"}}
                       \cup {[kind |-> "Resized", size |-> size] :
                                size \in {<<4, 2>>, <<2, 2>>}}
                       \cup {[kind |-> "KeyboardInput", state |-> "Pressed", key |-> key] :
                                key \in {"Escape", "Key1", "Key2", "Key3", "A"}}
                       \cup {[kind |-> "KeyboardInput", state |-> "Released",
                              key |-> "Escape"]}
                       \cup {[kind |-> "CursorMoved", position |-> position] :
                                position \in {<<0, 0>>, <<2, 1>>}}
                       \cup {[kind |-> "MouseInput", state |-> state, button |-> button] :
                                state \in {"Pressed", "Released"},
                                button \in {"Left", "Right", "Middle"}} :
          vw' = Closure(vw, message, event)
    /\ UNCHANGED <<shapeVars, o3d, sweepVars, ap, legacyVars>>

(***************************************************************************)
(* Properties of GlobalEdge, Vertices::add and Cycles::add                 *)
(***************************************************************************)
Reversed(pair) == <<pair[2], pair[1]>>

SquaredDistance(p, q) ==
    (p[1] - q[1]) * (p[1] - q[1]) + (p[2] - q[2]) * (p[2] - q[2])

\* C1: GlobalEdge::new(curve, [A, B]) and GlobalEdge::new(curve, [B, A]) are
\* equal values, and two half-edges over the same curve and the same two
\* vertices in opposite directions have equal global forms.
C1_GlobalEdgeDirectionless ==
    /\ \A e1 \in globalEdges, e2 \in globalEdges :
          (e1.curve = e2.curve /\ e1.given = Reversed(e2.given)) => e1.edge = e2.edge
    /\ \A h1 \in halfEdges, h2 \in halfEdges :
          (h1.curve = h2.curve /\ h1.boundary = Reversed(h2.boundary))
              => h1.global_form = h2.global_form

\* Two half-edges a->b and b->a over distinct vertices have been built.
C1_Witness ==
    /\ \E e1 \in globalEdges, e2 \in globalEdges :
          /\ e1.curve = e2.curve
          /\ e1.given = Reversed(e2.given)
          /\ e1.given[1] # e1.given[2]
    /\ \E h1 \in halfEdges, h2 \in halfEdges :
          /\ h1.curve = h2.curve
          /\ h1.boundary = Reversed(h2.boundary)
          /\ h1.boundary[1] # h1.boundary[2]

\* C2: the array [x, y] returned by access_in_normalized_order never has
\* y < x, and it holds exactly the two handles passed to GlobalEdge::new.
C2_VerticesNormalized ==
    \A e \in globalEdges :
        LET v == AccessInNormalizedOrder(e.edge) IN
        /\ ~(v[2] < v[1])
        /\ (v = e.given \/ v = Reversed(e.given))

\* An edge whose vertices were passed in descending order has been created.
C2_Witness == \E e \in globalEdges : e.given[2] < e.given[1]

\* C3: the bool returned by VerticesInNormalizedOrder::new is true if and
\* only if the stored array differs in order from the argument array, also
\* for a pair of equal handles.
C3_ChangedIffReordered ==
    \A e \in globalEdges : e.changed <=> (AccessInNormalizedOrder(e.edge) # e.given)

\* C4: Vertices::add panics when the new point is strictly closer than
\* min_distance to a stored vertex, and otherwise (distance greater than or
\* exactly equal to min_distance to every stored vertex) stores the vertex and
\* returns a handle to it.
C4_AddFailsIffTooClose ==
    lastAdd.called =>
        /\ lastAdd.panicked <=>
              \E i \in 1..Len(lastAdd.before) :
                  SquaredDistance(lastAdd.before[i], lastAdd.point)
                      < MinDistance * MinDistance
        /\ ~lastAdd.panicked =>
              /\ vertices = Append(lastAdd.before, lastAdd.point)
              /\ lastAdd.handle = Len(vertices)
              /\ vertices[lastAdd.handle] = lastAdd.point

\* A vertex exactly min_distance away from a stored vertex has been added.
C4_Witness ==
    /\ lastAdd.called
    /\ ~lastAdd.panicked
    /\ \E i \in 1..Len(lastAdd.before) :
          SquaredDistance(lastAdd.before[i], lastAdd.point) = MinDistance * MinDistance

\* C5: every two distinct stored vertices are at distance >= min_distance,
\* and a call that panics leaves the stored vertex list as it was.
C5_MinDistanceInvariant ==
    /\ \A i \in 1..Len(vertices), j \in 1..Len(vertices) :
          i # j => SquaredDistance(vertices[i], vertices[j]) >= MinDistance * MinDistance
    /\ (lastAdd.called /\ lastAdd.panicked) => vertices = lastAdd.before

\* A call has panicked on a shape that stores two vertices, the new point
\* being far enough from the vertex stored last.
C5_Witness ==
    /\ lastAdd.called
    /\ lastAdd.panicked
    /\ Len(vertices) >= 2
    /\ SquaredDistance(vertices[Len(vertices)], lastAdd.point)
          >= MinDistance * MinDistance

\* C6: Cycles::add panics when at least one edge of the cycle is not stored
\* in the shape, and then adds no cycle; only when every edge belongs to the
\* shape is exactly one cycle appended and its handle returned.
C6_CycleAddValidates ==
    lastCycle.called =>
        /\ lastCycle.panicked <=>
              \E i \in 1..Len(lastCycle.cycle) : lastCycle.cycle[i] \notin shapeEdges
        /\ lastCycle.panicked => cycles = lastCycle.before
        /\ ~lastCycle.panicked =>
              /\ cycles = Append(lastCycle.before, lastCycle.cycle)
              /\ lastCycle.handle = Len(cycles)

\* A cycle whose first edge is stored and whose second edge is not was refused.
C6_Witness ==
    /\ lastCycle.called
    /\ lastCycle.panicked
    /\ Len(lastCycle.cycle) >= 2
    /\ lastCycle.cycle[1] \in shapeEdges
    /\ lastCycle.cycle[2] \notin shapeEdges

(***************************************************************************)
(* Properties of orient3d                                                  *)
(***************************************************************************)
\* The determinant of the rows (a - d, b - d, c - d), in exact arithmetic.
ExactDeterminant(p) ==
    LET adx == p[1][1] - p[4][1]
        bdx == p[2][1] - p[4][1]
        cdx == p[3][1] - p[4][1]
        ady == p[1][2] - p[4][2]
        bdy == p[2][2] - p[4][2]
        cdy == p[3][2] - p[4][2]
        adz == p[1][3] - p[4][3]
        bdz == p[2][3] - p[4][3]
        cdz == p[3][3] - p[4][3]
    IN  adz * (bdx * cdy - cdx * bdy) + bdz * (cdx * ady - adx * cdy)
        + cdz * (adx * bdy - bdx * ady)

\* The arguments with positions i and j exchanged.
Swapped(p, i, j) ==
    [k \in 1..4 |-> IF k = i THEN p[j] ELSE IF k = j THEN p[i] ELSE p[k]]

Transpositions == {ij \in (1..4) \X (1..4) : ij[1] < ij[2]}

Ended == o3d.pc \in {"done", "panic"}

InExpansion == o3d.pc \in LoopPhases \cup {"end"}

\* C7: no slice index leaves its slice.  While scale_expansion_zeroelim or
\* fast_expansion_sum_zeroelim runs, every element of e, f and h that was
\* read or written lay inside the slice passed in, and the call of orient3d
\* never ends in a panic.
C7_IndicesInBounds ==
    /\ o3d.pc # "panic"
    /\ InExpansion => ~o3d.fr.oob

\* C8: orient3d always terminates with a value.  A loop of the two
\* expansion functions runs only while eindex < elen or findex < flen, each
\* iteration strictly increases eindex or findex and decreases neither, the
\* calls still to be made only get fewer within a stage, and a step that
\* ends the call of orient3d returns a value.
C8_StepTowardsReturn ==
    /\ (o3d.pc \in LoopPhases) =>
          /\ o3d.fr.eindex < o3d.fr.elen \/ o3d.fr.findex < o3d.fr.flen
          /\ o3d'.fr.eindex >= o3d.fr.eindex
          /\ o3d'.fr.findex >= o3d.fr.findex
          /\ o3d'.fr.eindex + o3d'.fr.findex > o3d.fr.eindex + o3d.fr.findex
    /\ (o3d.pc = "end" /\ o3d'.pc = "call") => Len(o3d'.todo) < Len(o3d.todo)
    /\ (o3d'.pc \in {"done", "panic"}) => o3d'.pc = "done"

C8_TerminatesWithValue == [][C8_StepTowardsReturn]_vars

\* C9: once orient3d(a, b, c, d) has ended it has returned a value whose
\* sign is the sign of the exact determinant; the value is zero for
\* coplanar points.
C9_SignIsExact ==
    Ended =>
        /\ o3d.pc = "done"
        /\ Sign(o3d.result) = Sign(ExactDeterminant(o3d.p))
        /\ ExactDeterminant(o3d.p) = 0 => o3d.result = 0

\* C10: exchanging any two arguments flips the sign.  Once orient3d(p) has
\* ended, it and the call on every transposition of p have returned values
\* of opposite signs.
C10_SwapFlipsSign ==
    Ended =>
        \A ij \in Transpositions :
            LET other == Orient3dRun(Swapped(o3d.p, ij[1], ij[2]))
            IN  /\ o3d.pc = "done"
                /\ other.pc = "done"
                /\ Sign(other.result) = -Sign(o3d.result)

(***************************************************************************)
(* Properties of the sweep of a half-edge and of the object store          *)
(***************************************************************************)
\* the surface positions of the start and the end of a stored half-edge
EdgePositions(store, half_edge) ==
    <<store[SurfaceVertices(store[half_edge])[1]].position,
      store[SurfaceVertices(store[half_edge])[2]].position>>

\* the half-edges of the exterior cycle of a stored face
ExteriorOf(store, face) == store[store[face].exterior].half_edges

\* C11: the face a sweep returns has an exterior cycle of exactly four
\* half-edges on the side surface: the bottom edge from [t0, 0] to [t1, 0],
\* the side edge from [t1, 0] up to [t1, 1], the top edge from [t1, 1] to
\* [t0, 1] and the other side edge from [t0, 1] down to [t0, 0], where t0 and
\* t1 are the boundary of the swept half-edge; and for the segment from
\* (0, 0) to (1, 0) swept along (0, 0, 1) the surface is the xz-plane, the
\* cycle visits (0, 0), (1, 0), (1, 1), (0, 1) and the face is the very face
\* the test builds as the expected one.
C11_SweptFaceCycle ==
    sw.pc = "done" =>
        LET edges == ExteriorOf(objects, sw.face)
            t == Boundary(objects[sw.edge])
        IN  /\ Len(edges) = 4
            /\ edges[1] = sw.bottom_edge
            /\ \A k \in 1..4 : objects[objects[edges[k]].curve].surface = sw.surface
            /\ EdgePositions(objects, edges[1]) = <<<<t[1], 0>>, <<t[2], 0>>>>
            /\ EdgePositions(objects, edges[2]) = <<<<t[2], 0>>, <<t[2], 1>>>>
            /\ EdgePositions(objects, edges[3]) = <<<<t[2], 1>>, <<t[1], 1>>>>
            /\ EdgePositions(objects, edges[4]) = <<<<t[1], 1>>, <<t[1], 0>>>>
            /\ sw.expected_face # 0 =>
                  /\ objects[sw.surface] = XzPlane
                  /\ [k \in 1..4 |-> EdgePositions(objects, edges[k])[1]]
                        = <<<<0, 0>>, <<1, 0>>, <<1, 1>>, <<0, 1>>>>
                  /\ sw.face = sw.expected_face

\* the test's sweep is over and the expected face has been built
C11_Witness ==
    /\ sw.pc = "done"
    /\ sw.expected_face # 0
    /\ Len(ExteriorOf(objects, sw.face)) = 4

\* the end vertex of edges[k] is the stored instance the next edge starts at
Connected(store, edges, k) ==
    SurfaceVertices(store[edges[k]])[2]
        = SurfaceVertices(store[edges[(k % Len(edges)) + 1]])[1]

\* C12: once the orientation loop has dealt with the pairs 1..i, each of them
\* is connected (the end surface vertex of the one edge is the same stored
\* instance as the start surface vertex of the next) and stays connected
\* through the later iterations; the stored cycle is connected at all four
\* pairs, the pair (last edge, first edge) included.
C12_CycleConnected ==
    /\ sw.pc = "orient" =>
          \A k \in 1..sw.i : Connected(objects, sw.edges, k)
    /\ sw.pc = "done" =>
          /\ objects[sw.cycle].half_edges = sw.edges
          /\ \A k \in 1..4 : Connected(objects, objects[sw.cycle].half_edges, k)

\* a sweep is over in which the loop reversed the top edge and a side edge
C12_Witness ==
    /\ sw.pc = "done"
    /\ objects[sw.cycle].half_edges[3] # sw.top_edge
    /\ objects[sw.cycle].half_edges[4] # sw.side_edges[1]
    /\ objects[sw.cycle].half_edges[1] = sw.bottom_edge

\* the bottom edge of the running or finished sweep has the 3D identity of
\* the swept half-edge: the same global edge, a curve with the same global
\* curve, the same boundary coordinates, and at each end a surface vertex
\* of the side surface at [t, 0] with the global vertex of the swept
\* half-edge's vertex at that end
BottomKeepsIdentity ==
    LET e == objects[sw.edge]
        bottom == objects[sw.bottom_edge]
    IN  /\ bottom.global_form = e.global_form
        /\ objects[bottom.curve].global_form = objects[e.curve].global_form
        /\ objects[bottom.curve].surface = sw.surface
        /\ \A k \in 1..2 :
              /\ bottom.boundary[k][1] = e.boundary[k][1]
              /\ objects[bottom.boundary[k][2]] =
                    [kind |-> "SurfaceVertex",
                     position |-> <<e.boundary[k][1], 0>>,
                     surface |-> sw.surface,
                     global_form |-> objects[e.boundary[k][2]].global_form]
              /\ bottom.boundary[k][2] # e.boundary[k][2]

C16_InsertIdempotent ==
    \A h \in 1..Len(objects) :
        Insert(objects, objects[h]) = [objects |-> objects, handle |-> h]

\* a second sweep has run to its end and every one of its insertions
\* returned an instance that was stored before
C16_Witness ==
    /\ sw.pc = "done"
    /\ sw.count = 2
    /\ sw.face <= sw.base
    /\ Len(objects) = sw.base

\* the global vertices of the boundaries of a sequence of stored faces
GlobalVerticesOf(store, faces) ==
    {store[store[e].boundary[k][2]].global_form :
        e \in UNION {{store[store[faces[f]].exterior].half_edges[n] :
                         n \in 1..Len(store[store[faces[f]].exterior].half_edges)} :
                     f \in 1..Len(faces)},
        k \in 1..2}

\* the faces of all the shells of a stored solid, one after the other
RECURSIVE FacesOfShells(_, _, _)
FacesOfShells(store, shells, k) ==
    IF k > Len(shells) THEN <<>>
    ELSE store[shells[k]].faces \o FacesOfShells(store, shells, k + 1)

\* C14: a sketch sweep sweeps the faces of the sketch in their order, each
\* along the path of the call and with the one cache of the call (which by
\* then holds every global vertex of the faces swept before); the solid is
\* built from exactly the shells these sweeps returned, one per face, the
\* k-th with the k-th face as its bottom; each shell has two faces more than
\* its face has edges and the solid has twice the distinct global vertices
\* of the sketch: one shell, 6 faces and 8 vertices for one square.
C14_SketchSweep ==
    /\ \A k \in 1..Len(sk.calls) :
          /\ sk.calls[k].path = sk.path
          /\ sk.calls[k].face = objects[sk.sketch].faces[k]
          /\ \A g \in GlobalVerticesOf(objects, [n \in 1..(k - 1) |-> sk.calls[n].face]) :
                \E c \in sk.calls[k].cache : c[1] = g
    /\ sk.pc = "done" =>
          LET faces == objects[sk.sketch].faces
              shells == objects[sk.solid].shells
          IN  /\ shells = sk.shells
              /\ Len(shells) = Len(faces)
              /\ Len(sk.calls) = Len(faces)
              /\ \A k \in 1..Len(faces) :
                    /\ objects[shells[k]].faces[1] = faces[k]
                    /\ Len(objects[shells[k]].faces)
                          = Len(objects[objects[faces[k]].exterior].half_edges) + 2
              /\ Cardinality(GlobalVerticesOf(objects, FacesOfShells(objects, shells, 1)))
                    = 2 * Cardinality(GlobalVerticesOf(objects, faces))
              /\ Len(faces) = 1 =>
                    /\ Len(shells) = 1
                    /\ Len(objects[shells[1]].faces) = 6
                    /\ Cardinality(GlobalVerticesOf(objects,
                                       FacesOfShells(objects, shells, 1))) = 8

\* the sweep of a sketch of two faces is over
C14_Witness ==
    /\ sk.pc = "done"
    /\ Len(objects[sk.sketch].faces) = 2
    /\ Len(objects[sk.solid].shells) = 2

\* C15: any two approximations of the same curve identity made with the
\* same cache at the same tolerance have element-wise identical point
\* sequences; every face of one sketch approximation gets the tolerance and
\* the cache of the call, so the edge two faces of the sketch share has the
\* same points in both face approximations.
C15_SameCurveSamePoints ==
    /\ \A a \in ap.log, b \in ap.log :
          (a.cache = b.cache /\ a.tolerance = b.tolerance /\ a.curve = b.curve)
              => a.points = b.points
    /\ \A a \in ap.log, b \in ap.log :
          a.call = b.call => (a.cache = b.cache /\ a.tolerance = b.tolerance)
    /\ \A f \in ap.result, g \in ap.result :
          \A m \in 1..Len(f.exterior), n \in 1..Len(g.exterior) :
              f.exterior[m].curve = g.exterior[n].curve
                  => f.exterior[m].points = g.exterior[n].points

\* two faces of one sketch approximation share an edge, which the two
\* traverse in opposite directions
C15_Witness ==
    \E f \in ap.result, g \in ap.result :
        /\ f.face # g.face
        /\ \E m \in 1..Len(ExteriorOf(objects, f.face)),
              n \in 1..Len(ExteriorOf(objects, g.face)) :
              /\ f.exterior[m].curve = g.exterior[n].curve
              /\ LinePoints(objects, ExteriorOf(objects, f.face)[m])
                    # LinePoints(objects, ExteriorOf(objects, g.face)[n])

\* Faces::contains: a face equal to the given one is among the faces
ContainsFace(faces, face) == \E k \in 1..Len(faces) : faces[k] = face

IndexLess(i, j) ==
    \/ i[1] < j[1]
    \/ i[1] = j[1] /\ i[2] < j[2]
    \/ i[1] = j[1] /\ i[2] = j[2] /\ i[3] < j[3]

\* the axis along which j is the index next to i, or 0 if there is none
NextAlong(i, j) ==
    IF j = Plus3(i, <<0, 0, 1>>) THEN 3
    ELSE IF j = Plus3(i, <<0, 1, 0>>) THEN 2
    ELSE IF j = Plus3(i, <<1, 0, 0>>) THEN 1
    ELSE 0

\* C19: Grid::edges yields exactly one edge for every pair of retained
\* vertices of which the second is the next after the first along one axis,
\* and no other edge; the edges come in the order of the index of their
\* first vertex and, for one vertex, along z, then y, then x; the grid of
\* 3 x 3 x 3 vertices with every vertex retained has 54 edges.
C19_GridEdges ==
    (grid.pc = "built" /\ grid.edges_called) =>
        LET values == grid.grid.grid_vertex_values
            edges == grid.edges
        IN  /\ \A i \in DOMAIN values, j \in DOMAIN values :
                  NextAlong(i, j) # 0 =>
                      Cardinality({k \in 1..Len(edges) :
                                      edges[k].a.index = i /\ edges[k].b.index = j}) = 1
            /\ \A k \in 1..Len(edges) :
                  /\ edges[k].a.index \in DOMAIN values
                  /\ edges[k].b.index \in DOMAIN values
                  /\ NextAlong(edges[k].a.index, edges[k].b.index) # 0
            /\ \A k \in 1..Len(edges), l \in 1..Len(edges) :
                  k < l =>
                      \/ IndexLess(edges[k].a.index, edges[l].a.index)
                      \/ /\ edges[k].a.index = edges[l].a.index
                         /\ NextAlong(edges[k].a.index, edges[k].b.index)
                               > NextAlong(edges[l].a.index, edges[l].b.index)
            /\ (grid.grid.size = 3 /\ Cardinality(DOMAIN values) = 27) => Len(edges) = 54

\* the edges of a grid that has lost some of its vertices, none of them
\* all of its neighbours, have been collected
C19_Witness ==
    /\ grid.pc = "built"
    /\ grid.edges_called
    /\ grid.edges # <<>>
    /\ \E i \in DOMAIN grid.grid.grid_vertex_values :
          Plus3(i, <<1, 0, 0>>) \in DOMAIN grid.grid.grid_vertex_values
              /\ i[2] + 1 < grid.grid.size
              /\ Plus3(i, <<0, 1, 0>>) \notin DOMAIN grid.grid.grid_vertex_values

\* an edge is interior when the grid has the four cells around it
InteriorEdge(g, edge) ==
    LET axis == EdgeDirection(edge).axis
        low == IF edge.a.index[axis] < edge.b.index[axis]
               THEN edge.a.index ELSE edge.b.index
    IN  \A k \in 1..3 :
            IF k = axis THEN low[k] <= g.size - 2
            ELSE low[k] >= 1 /\ low[k] <= g.size - 2

\* C20: for every interior axis-aligned edge Grid::neighbors_of_edge
\* returns for the reversed edge the same four surface vertices in the
\* same order as for the edge.
C20_DirectionIndependent ==
    (grid.pc = "built" /\ grid.neighbors_called /\ InteriorEdge(grid.grid, grid.edge)) =>
        /\ ~grid.outcome.panicked
        /\ NeighborsOfEdge(grid.grid, EdgeReverse(grid.edge)) = grid.outcome

\* the neighbors of an interior edge that runs backwards, with different
\* values at its ends, have been returned
C20_Witness ==
    /\ grid.pc = "built"
    /\ grid.neighbors_called
    /\ InteriorEdge(grid.grid, grid.edge)
    /\ EdgeDirection(grid.edge).sign = "Neg"
    /\ grid.edge.a.value < grid.edge.b.value
    /\ Len(grid.outcome.neighbors) = 4

\* the surface vertices of the four cells of the grid that have the edge
\* as one of their edges
CellsAround(g, edge) ==
    LET axis == EdgeDirection(edge).axis
        low == IF edge.a.index[axis] < edge.b.index[axis]
               THEN edge.a.index ELSE edge.b.index
    IN  {g.surface_vertices[cell] :
            cell \in {c \in DOMAIN g.surface_vertices :
                        \A k \in 1..3 :
                            IF k = axis THEN c[k] = low[k]
                            ELSE c[k] = low[k] \/ c[k] = low[k] - 1}}

\* the neighbors as they come out for the other winding
OtherWinding(n) == <<n[2], n[1], n[4], n[3]>>

\* C21 as stated: the neighbors of an interior edge are the surface vertices
\* of the four cells around it, and the edge with its two values exchanged
\* gets them as [n1, n0, n3, n2].
C21_SwappedValuesOtherWinding ==
    (grid.pc = "built" /\ grid.neighbors_called /\ InteriorEdge(grid.grid, grid.edge)) =>
        /\ {grid.outcome.neighbors[k] : k \in 1..4} = CellsAround(grid.grid, grid.edge)
        /\ Cardinality(CellsAround(grid.grid, grid.edge)) = 4
        /\ NeighborsOfEdge(grid.grid, EdgeSwapValues(grid.edge)).neighbors
              = OtherWinding(grid.outcome.neighbors)

\* C21, amended: the neighbors of an interior edge are the surface vertices
\* of the four cells around it; the edge with its two values exchanged gets
\* them as [n1, n0, n3, n2] when the two values differ and in the same
\* order when they are equal; exchanging a smaller end with its greater one
\* in the direction of the axis gives the order of the test, the second
\* offset of the axis first.
C21_WindingByValues ==
    (grid.pc = "built" /\ grid.neighbors_called /\ InteriorEdge(grid.grid, grid.edge)) =>
        /\ {grid.outcome.neighbors[k] : k \in 1..4} = CellsAround(grid.grid, grid.edge)
        /\ Cardinality(CellsAround(grid.grid, grid.edge)) = 4
        /\ grid.edge.a.value # grid.edge.b.value =>
              NeighborsOfEdge(grid.grid, EdgeSwapValues(grid.edge)).neighbors
                  = OtherWinding(grid.outcome.neighbors)
        /\ grid.edge.a.value = grid.edge.b.value =>
              NeighborsOfEdge(grid.grid, EdgeSwapValues(grid.edge)).neighbors
                  = grid.outcome.neighbors

\* the neighbors of an interior edge along each axis, with a greater value
\* at its start than at its end, have been returned
C21_Witness ==
    /\ grid.pc = "built"
    /\ grid.neighbors_called
    /\ InteriorEdge(grid.grid, grid.edge)
    /\ grid.edge.a.value > grid.edge.b.value
    /\ grid.edge.a.index = <<1, 1, 1>>
    /\ EdgeDirection(grid.edge).sign = "Pos"
    /\ \/ EdgeDirection(grid.edge).axis = 1
             /\ grid.outcome.neighbors
                   = <<<<2, 2, 0>>, <<2, 0, 0>>, <<2, 0, 2>>, <<2, 2, 2>>>>
       \/ EdgeDirection(grid.edge).axis = 2
             /\ grid.outcome.neighbors
                   = <<<<0, 2, 0>>, <<2, 2, 0>>, <<2, 2, 2>>, <<0, 2, 2>>>>
       \/ EdgeDirection(grid.edge).axis = 3
             /\ grid.outcome.neighbors
                   = <<<<2, 0, 2>>, <<0, 0, 2>>, <<0, 2, 2>>, <<2, 2, 2>>>>

\* the plain estimate of the determinant and the permanent of its terms
PlainEstimate(p) ==
    LET d == Diffs(p)
        term(x, y, z) == FMul(z, FSub(FMul(x[1], y[2]), FMul(y[1], x[2])))
        size(x, y, z) == FMul(FAdd(Abs(FMul(x[1], y[2])), Abs(FMul(y[1], x[2]))), Abs(z))
        a == <<d.adx, d.ady>>
        b == <<d.bdx, d.bdy>>
        c == <<d.cdx, d.cdy>>
    IN  [det |-> FAdd(FAdd(term(b, c, d.adz), term(c, a, d.bdz)), term(a, b, d.cdz)),
         permanent |-> FAdd(FAdd(size(b, c, d.adz), size(c, a, d.bdz)),
                            size(a, b, d.cdz))]

\* the magnitude of a value reaches, or exceeds, an error bound
Reaches(det, err) == AtLeast(det, err) \/ AtLeast(-det, err)
Exceeds(det, err) == GreaterThan(det, err) \/ GreaterThan(-det, err)

\* the step of orient3d: the plain estimate is returned exactly when its
\* magnitude exceeds O3DERRBOUNDA * permanent, and orient3dadapt is entered
\* otherwise
C22_PlainStep ==
    o3d.pc = "start" =>
        IF Exceeds(PlainEstimate(o3d.p).det,
                   ErrMul(O3DERRBOUNDA, PlainEstimate(o3d.p).permanent))
        THEN /\ o3d'.pc = "done"
             /\ o3d'.via = "fast"
             /\ o3d'.result = PlainEstimate(o3d.p).det
        ELSE /\ o3d'.pc = "adapt"
             /\ o3d'.permanent = PlainEstimate(o3d.p).permanent

\* the step of orient3dadapt after fin1 is built: the first of the three
\* returns that applies is taken, and the last stage is entered otherwise
C22_EstimateStep ==
    (o3d.pc = "call" /\ o3d.todo = <<>> /\ o3d.stage = 1) =>
        LET det == Estimate(SubSeq(o3d.arr["fin1"], 1, o3d.len["fin1"]))
            corrected == FAdd(det, TailCorrection(Diffs(o3d.p), Tails(o3d.p)))
        IN  IF Reaches(det, ErrMul(O3DERRBOUNDB, o3d.permanent))
            THEN o3d'.pc = "done" /\ o3d'.via = "B" /\ o3d'.result = det
            ELSE IF \A k \in DOMAIN Tails(o3d.p) : Tails(o3d.p)[k] = 0
            THEN o3d'.pc = "done" /\ o3d'.via = "exact" /\ o3d'.result = det
            ELSE IF Reaches(corrected,
                            ErrAdd(ErrMul(O3DERRBOUNDC, o3d.permanent),
                                   ErrMul(RESULTERRBOUND, Abs(det))))
            THEN o3d'.pc = "done" /\ o3d'.via = "C" /\ o3d'.result = corrected
            ELSE o3d'.pc = "call" /\ o3d'.stage = 2

\* the step of orient3dadapt after the last stage: the last component of
\* the expansion is returned, and no component is greater in magnitude
C22_RefinedStep ==
    (o3d.pc = "call" /\ o3d.todo = <<>> /\ o3d.stage = 2) =>
        /\ o3d'.pc = "done"
        /\ o3d'.via = "final"
        /\ o3d.len[o3d.finnow] >= 1
        /\ o3d'.result = o3d.arr[o3d.finnow][o3d.len[o3d.finnow]]
        /\ \A k \in 1..o3d.len[o3d.finnow] :
              Abs(o3d.arr[o3d.finnow][k]) <= Abs(o3d'.result)

\* a call ends in one of the five returns only
C22_EndsInReturn ==
    (o3d.pc \notin {"done", "panic"} /\ o3d'.pc \in {"done", "panic"}) =>
        /\ o3d'.pc = "done"
        /\ \/ o3d.pc = "start"
           \/ o3d.pc = "call" /\ o3d.todo = <<>>

\* C22: orient3d returns the plain estimate without entering orient3dadapt
\* exactly when |det| > O3DERRBOUNDA * permanent; otherwise orient3dadapt
\* returns at the first stage that applies: the estimate of the expansion
\* when |det| >= O3DERRBOUNDB * permanent, the same estimate when the nine
\* tails are zero, the tail-corrected estimate when it reaches
\* O3DERRBOUNDC * permanent + RESULTERRBOUND * |det|, and only otherwise the
\* largest component of the fully refined expansion; a call ends in no
\* other way.
C22_ReturnStages ==
    [][C22_PlainStep /\ C22_EstimateStep /\ C22_RefinedStep /\ C22_EndsInReturn]_vars

\* the same without the last clause: where a call returns, it returns at
\* the first stage that applies
C22_StagesInOrder ==
    [][C22_PlainStep /\ C22_EstimateStep /\ C22_RefinedStep]_vars

\* C23: in the loop of the viewer, whatever events and messages have come,
\* a shape is there exactly when a camera is there; an iteration for
\* RedrawRequested draws exactly when a shape has been processed by then,
\* and no other iteration draws.
C23_ShapeWithCamera ==
    /\ vw.shape # 0 <=> vw.camera.some
    /\ vw.last.drew <=> (vw.last.event.kind = "RedrawRequested" /\ vw.first # 0)

\* a redraw has been asked for and not drawn, no shape having been
\* processed but an error reported
C23_WitnessNotDrawn ==
    /\ vw.last.event.kind = "RedrawRequested"
    /\ vw.last.message.kind = "err"
    /\ vw.first = 0
    /\ ~vw.last.drew

\* a redraw has been drawn with a second shape and the camera of the first
C23_Witness ==
    /\ vw.last.event.kind = "RedrawRequested"
    /\ vw.last.drew
    /\ vw.shape = 2
    /\ vw.first = 1

\* C24: the camera is made once, from the bounding box of the first shape
\* that has been processed; a shape that is processed later becomes the
\* shape and the geometry of the renderer, and the camera stays the one
\* that was made.
C24_CameraOnce ==
    /\ vw.camera.some =>
          /\ vw.first # 0
          /\ vw.camera.aabb = vw.first
          /\ vw.cameras = 1
    /\ ~vw.camera.some => vw.cameras = 0 /\ vw.first = 0
    /\ vw.last.message.kind = "ok" =>
          /\ vw.shape = vw.last.message.shape
          /\ vw.geometry = vw.last.message.shape
          /\ vw.last.updated_geometry

\* a second shape has been processed while the camera of the first was there
C24_Witness ==
    /\ vw.last.message.kind = "ok"
    /\ vw.last.message.shape = 2
    /\ vw.shape = 2
    /\ vw.camera.some
    /\ vw.camera.aabb = 1

\* C25: an iteration in which the new shape cannot be processed leaves
\* what an iteration without a new shape leaves for the same event: the
\* geometry is not updated, and unless the event itself changes them the
\* shape, the camera, the draw_config and the geometry stay and the loop
\* goes on.
C25_ErrorKeepsState ==
    [][vw'.last.message.kind = "err" =>
          /\ vw' = [Closure(vw, [kind |-> "none"], vw'.last.event)
                       EXCEPT !.last = [@ EXCEPT !.message = [kind |-> "err"]]]
          /\ ~vw'.last.updated_geometry
          /\ vw'.shape = vw.shape
          /\ vw'.camera = vw.camera
          /\ vw'.geometry = vw.geometry
          /\ vw'.first = vw.first
          /\ vw'.last.viewer_event.kind \notin {"ToggleModel", "ToggleMesh", "ToggleDebug"}
                => vw'.draw_config = vw.draw_config
          /\ (vw'.last.event.kind # "CloseRequested"
                /\ vw'.last.viewer_event.kind # "Exit") => ~vw'.exit]_vars

\* a shape could not be processed while a shape was shown, and the key of
\* the iteration has been handled
C25_Witness ==
    /\ vw.last.message.kind = "err"
    /\ vw.shape = 2
    /\ vw.geometry = 2
    /\ vw.camera.some
    /\ vw.last.event.kind = "KeyboardInput"
    /\ vw.last.viewer_event.kind = "ToggleMesh"
    /\ vw.draw_config.draw_mesh
    /\ ~vw.exit

\* the position of the cursor in the window, normalized
Normalized(size, position) ==
    [some |-> TRUE,
     x |-> ((2 * position[1] - size[1]) * 4) \div size[1],
     y |-> ((size[2] - 2 * position[2]) * 4) \div size[1]]

\* C26: an iteration for CursorMoved gives Orbit exactly when a previous
\* position is recorded and the left button is held, Pan exactly when a
\* previous position is recorded and the right button is held, and no
\* viewer event otherwise; previous_cursor becomes the normalized position
\* in every case.
C26_CursorMoved ==
    [][vw'.last.event.kind = "CursorMoved" =>
          /\ vw'.last.viewer_event.kind = "Orbit"
                <=> (vw.previous_cursor.some /\ vw.held_mouse_button = "Left")
          /\ vw'.last.viewer_event.kind = "Pan"
                <=> (vw.previous_cursor.some /\ vw.held_mouse_button = "Right")
          /\ vw'.last.viewer_event.kind \in {"Orbit", "Pan", "None"}
          /\ vw'.last.viewer_event.kind \in {"Orbit", "Pan"} =>
                /\ vw'.last.viewer_event.previous = vw.previous_cursor
                /\ vw'.last.viewer_event.current
                      = Normalized(vw'.size, vw'.last.event.position)
          /\ vw'.previous_cursor = Normalized(vw'.size, vw'.last.event.position)
          /\ vw'.held_mouse_button = vw.held_mouse_button]_vars

\* the cursor has moved with the right button held in a window that is not
\* as wide as it was, from the corner to the middle
C26_Witness ==
    /\ vw.last.event.kind = "CursorMoved"
    /\ vw.last.viewer_event.kind = "Pan"
    /\ vw.held_mouse_button = "Right"
    /\ vw.size = <<2, 2>>
    /\ vw.last.viewer_event.previous = [some |-> TRUE, x |-> -4, y |-> 4]
    /\ vw.previous_cursor = [some |-> TRUE, x |-> 4, y |-> 0]

(***************************************************************************)
(* Specifications: one per component, each leaving the others untouched    *)
(***************************************************************************)
O3dIdle == [pc |-> "idle"]

\* The store holds the two planes; no sweep is in progress.
ExtIdle ==
    /\ objects = <<XyPlane, XzPlane>>
    /\ sw = SweepIdle
    /\ sk = SketchIdle
    /\ ap = ApproxIdle
    /\ ss = [pc |-> "idle"]
    /\ grid = [pc |-> "idle"]
    /\ vw = ViewerStart

NoAdd == [called |-> FALSE, point |-> <<0, 0>>, before |-> <<>>,
          panicked |-> FALSE, handle |-> 0]

NoCycle == [called |-> FALSE, cycle |-> <<>>, before |-> <<>>,
            panicked |-> FALSE, handle |-> 0]

\* A fresh store and a fresh shape; no orient3d call in progress.
Init ==
    /\ globalEdges = {}
    /\ halfEdges = {}
    /\ vertices = <<>>
    /\ lastAdd = NoAdd
    /\ shapeEdges = {}
    /\ cycles = <<>>
    /\ lastCycle = NoCycle
    /\ o3d = O3dIdle
    /\ ExtIdle

Next ==
    \/ NewGlobalEdge
    \/ BuildHalfEdge

\* GlobalEdge and HalfEdge construction.
Spec == Init /\ [][Next]_vars

NextVertices == VerticesAdd

\* Vertices::add on one shape.
SpecVertices == Init /\ [][NextVertices]_vars

\* A shape that already stores any set of edges.
InitCycles ==
    /\ globalEdges = {}
    /\ halfEdges = {}
    /\ vertices = <<>>
    /\ lastAdd = NoAdd
    /\ shapeEdges \in SUBSET EdgeIds
    /\ cycles = <<>>
    /\ lastCycle = NoCycle
    /\ o3d = O3dIdle
    /\ ExtIdle

NextCycles == CyclesAdd

\* Cycles::add on one shape.
SpecCycles == InitCycles /\ [][NextCycles]_vars

\* One call of orient3d with four points of the pool.
InitOrient ==
    /\ globalEdges = {}
    /\ halfEdges = {}
    /\ vertices = <<>>
    /\ lastAdd = NoAdd
    /\ shapeEdges = {}
    /\ cycles = <<>>
    /\ lastCycle = NoCycle
    /\ o3d \in {Orient3dEntry(p) : p \in Orient3dInputs}
    /\ ExtIdle

NextOrient ==
    \/ Orient3dFast
    \/ AdaptStart
    \/ CallExpansion
    \/ ScaleLoop
    \/ SumFirst
    \/ SumMerge
    \/ SumRestE
    \/ SumRestF
    \/ ExpansionReturn
    \/ AdaptMiddle
    \/ AdaptFinal

SpecOrient == InitOrient /\ [][NextOrient]_vars

NextSweep ==
    \/ NewLineSegment
    \/ ReverseSegment
    \/ SweepSurface
    \/ BottomEdge
    \/ SideEdges
    \/ TopEdge
    \/ CycleBegin
    \/ OrientEdge
    \/ FaceBuild
    \/ ExpectedFace

\* A sketch of line segments is drawn and its half-edges are swept.
SpecSweep == Init /\ [][NextSweep]_vars

NextSketch ==
    \/ DrawFace
    \/ NewSketch
    \/ SketchSweepBegin
    \/ FaceSweepBegin
    \/ FaceSweepCall
    \/ BottomEdge
    \/ SideEdges
    \/ TopEdge
    \/ CycleBegin
    \/ OrientEdge
    \/ FaceBuild
    \/ FaceSweepReturn
    \/ FaceSweepEnd
    \/ SolidBuild

\* A sketch of one or two squares is drawn and swept into a solid.
SpecSketch == Init /\ [][NextSketch]_vars

NextApprox ==
    \/ DrawFace
    \/ NewSketch
    \/ ApproxBegin
    \/ FaceApprox
    \/ ApproxEnd

SpecApprox == Init /\ [][NextApprox]_vars

NextShapeSweep == SweepShape

SpecShapeSweep == Init /\ [][NextShapeSweep]_vars

NextGrid ==
    \/ FromDescriptor
    \/ Edges
    \/ Neighbors

SpecGrid == Init /\ [][NextGrid]_vars

NextViewer == Iteration

SpecViewer == Init /\ [][NextViewer]_vars

=============================================================================
